---- MODULE Spec2Model ----
(***************************************************************************)
(* A model of the obsidian-leaflet plugin: the Marker entity               *)
(* (src/src/layer/marker.ts), the plugin shell that relays marker events   *)
(* between views and persists map records (src/src/main.ts), and the       *)
(* code-block parser and marker resolver (src/unnamed/part_000).           *)
(*                                                                         *)
(* The module holds these state machines over one set of variables:        *)
(*   MarkerSpec     one Marker entity, its proxy and its display groups    *)
(*   IconSpec       the setters of a Marker and the data of its icon       *)
(*   RoundTripSpec  toProperties / reconstruct / toProperties              *)
(*   Spec, StoreSpec  the plugin: views, event relay, saveSettings         *)
(*   RenderSpec     the plugin: postprocessor, rename and delete handlers  *)
(*   ParamsSpec     getParamsFromSource on a code block                    *)
(*   ItemsSpec      getImmutableItems on inline marker rows                *)
(*   DocsSpec       getImmutableItems on the documents of the vault        *)
(* Each specification leaves the variables of the others untouched.        *)
(***************************************************************************)
EXTENDS Integers, Sequences, FiniteSets, TLC

(***************************************************************************)
(* Values                                                                  *)
(***************************************************************************)
\* null / undefined of a numeric field (minZoom, maxZoom, zoom): `== null`
\* in the source is true of both.
Null == -1
\* undefined, as the value read from a property an object does not have
Undefined == -2
\* undefined of a string field
UndefinedStr == "undefined"
\* undefined as the value of Marker.group
NoGroup == "no-group"

\* largest zoom level of the map in the model
MaxZoomLevel == 2
Zooms == 0..MaxZoomLevel
ZoomBounds == {Null} \cup Zooms

\* marker types of the icon registry (each has a display group in a layer)
Types == {"default", "pin"}
\* link texts; "" is the falsy one
Links == {"", "Note"}

\* a data attribute an icon does not carry
Absent == "absent"
\* the data of an icon of the registry: markerDivIcon({html, className})
NoData == [link |-> Absent, mutable |-> Absent, type |-> Absent]
\* `${x}` of a string or of undefined (UndefinedStr is "undefined")
StrOf(x) == x
\* `${x}` of a boolean
BoolStr(x) == IF x THEN "true" ELSE "false"

\* JavaScript truthiness of a string
Truthy(s) == s # "" /\ s # UndefinedStr

VARIABLES
    \* ---- MarkerSpec
    marker,     \* the Marker entity (this) and the groups holding its proxy
    mapLayer,   \* Layer.mapLayer: "undefined" until the layer is built
    mapZoom,    \* map.getZoom()
    lastOp,     \* the operation that made the last step
    wasDisplayed, \* marker.displayed before the last step
    \* ---- RoundTripSpec
    props,      \* the property bag p
    saved1,     \* the first toProperties() record
    saved2,     \* the second toProperties() record
    rtStage,    \* position in the round trip
    \* ---- Spec, StoreSpec (the plugin)
    maps,       \* this.maps: sequence of {map, el, id}; map is a handle
    mapFiles,   \* this.mapFiles: sequence of {file, maps}
    data,       \* this.data.mapMarkers: the persisted map records
    lastSave,   \* the last saveSettings: its time and the records its
                \* filters were given
    created,    \* number of map objects created so far
    mapId,      \* map.id of each map object
    markersOf,  \* map.markers of each map object
    overlaysOf, \* number of overlays of each map object
    nextId,     \* the next fresh marker id
    now,        \* Date.now()
    pending,    \* marker-data-updated handlers awaiting saveSettings
    dragging,   \* the marker under the pointer between dragstart and dragend
    \* ---- ParamsSpec
    block,      \* the text of a code block and how the YAML parser treats it
    params,     \* what getParamsFromSource(block text) gave
    \* ---- ItemsSpec
    call,       \* the arguments of a getImmutableItems call and the commands
    promise     \* the promise the call returned

markerVars == <<marker, mapLayer, mapZoom, lastOp, wasDisplayed>>
rtVars == <<props, saved1, saved2, rtStage>>
pluginVars == <<maps, mapFiles, data, lastSave, created, mapId, markersOf, overlaysOf,
                nextId, now, pending, dragging>>
parserVars == <<block, params, call, promise>>
vars == <<markerVars, rtVars, pluginVars, parserVars>>

(***************************************************************************)
(* MarkerTarget: Link and Command (marker.ts 21-99).  Only the text and    *)
(* the strategy are state; display is recomputed from them.                *)
(***************************************************************************)
Link(text) == [kind |-> "Link", text |-> text]
Command(text) == [kind |-> "Command", text |-> text]

(***************************************************************************)
(* Marker (marker.ts 101-444).  A marker is a record; every method takes   *)
(* the marker as `this` and returns the marker after the call.             *)
(*   inGroups: the types whose display group holds leafletInstance         *)
(*   displayed: undefined after construction, modelled as FALSE (the       *)
(*              source only tests its truthiness)                          *)
(*   icon: the data attributes of leafletInstance.options.icon             *)
(***************************************************************************)

\* get link()
link(this) == this.target.text

\* set link(x)
setLink(this, x) ==
    [this EXCEPT !.target.text = x, !.icon.link = StrOf(x)]

\* a command setter that forgets the text
setCommand_dropText(this, b) ==
    [this EXCEPT !.command = b,
                 !.target = IF b THEN Command("") ELSE Link("")]

\* set command(b)
setCommand(this, b) ==
    [this EXCEPT !.command = b,
                 !.target = IF b THEN Command(link(this)) ELSE Link(link(this))]

\* set mutable(x)
setMutable(this, x) ==
    [this EXCEPT !.mutable = x, !.icon.mutable = BoolStr(x)]

\* set type(x)
setType(this, x) == [this EXCEPT !.type = x, !.icon.type = StrOf(x)]

\* set icon(x): x is a MarkerIcon, of which the model keeps the type and the
\* data of its icon; leafletInstance.setIcon(x.icon) makes x.icon the icon of
\* the proxy
setIcon(this, x) == [setType(this, x.type) EXCEPT !.icon = x.icon]

\* get group(): this.mapLayer?.markers[this.type]; a group is named by its type
group(this) == IF mapLayer = "undefined" THEN NoGroup ELSE this.type

\* shouldShow with the inclusive upper bound made exclusive
shouldShow_exclusive(this, zoom) ==
    IF (this.minZoom = Null /\ this.maxZoom = Null) THEN TRUE
    ELSE IF ~this.displayed
         THEN (/\ this.minZoom # Null
               /\ this.minZoom <= zoom
               /\ this.maxZoom # Null
               /\ zoom < this.maxZoom)
         ELSE FALSE

\* shouldShow that takes a marker with one bound for an unbounded one
shouldShow_eitherUnbounded(this, zoom) ==
    IF (this.minZoom = Null \/ this.maxZoom = Null) THEN TRUE
    ELSE IF ~this.displayed
         THEN (/\ this.minZoom # Null
               /\ this.minZoom <= zoom
               /\ this.maxZoom # Null
               /\ zoom <= this.maxZoom)
         ELSE FALSE

\* shouldShow(zoom)
shouldShow(this, zoom) ==
    IF (this.minZoom = this.maxZoom /\ this.minZoom = Null) THEN TRUE
    ELSE IF ~this.displayed
         THEN (/\ this.minZoom # Null
               /\ this.minZoom <= zoom
               /\ this.maxZoom # Null
               /\ zoom <= this.maxZoom)
         ELSE FALSE

\* shouldHide(zoom); the source returns undefined where the model says FALSE
shouldHide(this, zoom) ==
    IF this.displayed
    THEN (\/ (this.minZoom # Null /\ this.minZoom > zoom)
          \/ (this.maxZoom # Null /\ zoom > this.maxZoom))
    ELSE FALSE

\* remove()
remove(this) ==
    IF group(this) # NoGroup
    THEN [this EXCEPT !.inGroups = @ \ {group(this)}]
    ELSE this

\* show() that ignores shouldShow
show_unguarded(this) ==
    IF group(this) # NoGroup /\ ~this.displayed
    THEN [this EXCEPT !.inGroups = @ \cup {group(this)}, !.displayed = TRUE]
    ELSE this

\* show()
show(this) ==
    IF shouldShow(this, mapZoom) /\ group(this) # NoGroup /\ ~this.displayed
    THEN [this EXCEPT !.inGroups = @ \cup {group(this)}, !.displayed = TRUE]
    ELSE this

\* hide() that clears the flag and leaves the proxy in its group
hide_keepsLayer(this) ==
    IF group(this) # NoGroup /\ this.displayed
    THEN [this EXCEPT !.displayed = FALSE]
    ELSE this

\* hide()
hide(this) ==
    IF group(this) # NoGroup /\ this.displayed
    THEN [remove(this) EXCEPT !.displayed = FALSE]
    ELSE this

\* new Marker(map, {id, icon, type, loc, link, ...}), up to checkAndAddToMap
\* and bindEvents
NewMarker(p) ==
    LET m0 == [id |-> Undefined, type |-> UndefinedStr, loc |-> p.loc,
               target |-> Link(""), layer |-> UndefinedStr,
               mutable |-> FALSE, command |-> FALSE, zoom |-> Null,
               percent |-> <<>>, description |-> UndefinedStr,
               minZoom |-> Null, maxZoom |-> Null,
               tooltip |-> UndefinedStr,
               displayed |-> FALSE, inGroups |-> {},
               icon |-> [link |-> p.link, mutable |-> BoolStr(p.mutable),
                         type |-> p.type]]
        m1 == [m0 EXCEPT !.target =
                  IF p.command THEN Command(p.link)
                  ELSE IF Truthy(p.link) THEN Link(p.link) ELSE @]
        m2 == [m1 EXCEPT !.id = p.id]
        m3 == setType(m2, p.type)
        m4 == [m3 EXCEPT !.loc = p.loc]
        m5 == setLink(m4, p.link)
        m6 == [m5 EXCEPT !.layer = p.layer]
        m7 == setMutable(m6, p.mutable)
        m8 == setCommand(m7, p.command)
        m9 == [m8 EXCEPT !.percent = p.percent,
                         !.description = p.description,
                         !.tooltip = p.tooltip]
    IN  [m9 EXCEPT !.zoom = p.zoom, !.minZoom = p.minZoom,
                   !.maxZoom = p.maxZoom]

\* map.markerIcons.get(type): the MarkerIcon of the registry
MarkerIcon(type) == [type |-> type, icon |-> NoData]

\* the contextmenu modal's onClose, not deleted: the edit of the entity
\* (the relay and the save it ends with are EditMarker of the plugin model)
onCloseEdit(this, temp) ==
    LET m1 == setLink(this, temp.link)
        m2 == setIcon(m1, MarkerIcon(temp.type))
        m3 == [m2 EXCEPT !.tooltip = temp.tooltip,
                         !.minZoom = temp.minZoom,
                         !.maxZoom = temp.maxZoom]
        m4 == setCommand(m3, temp.command)
    IN  IF shouldShow(m4, mapZoom) THEN show(m4)
        ELSE IF shouldHide(m4, mapZoom) THEN hide(m4)
        ELSE m4

\* a LatLng object
LatLng(lat, lng) == [shape |-> "LatLng", a |-> lat, b |-> lng]
\* a two-element array [a, b]
Pair(a, b) == [shape |-> "Array", a |-> a, b |-> b]
\* loc.lat and loc.lng: an array has neither property
Lat(loc) == IF loc.shape = "LatLng" THEN loc.a ELSE Undefined
Lng(loc) == IF loc.shape = "LatLng" THEN loc.b ELSE Undefined

\* toProperties()
toProperties(this) ==
    [id |-> this.id, type |-> this.type,
     loc |-> Pair(Lat(this.loc), Lng(this.loc)),
     link |-> link(this), layer |-> this.layer, mutable |-> this.mutable,
     command |-> this.command, zoom |-> this.zoom, percent |-> this.percent,
     description |-> this.description, minZoom |-> this.minZoom,
     maxZoom |-> this.maxZoom, tooltip |-> this.tooltip]

(***************************************************************************)
(* MarkerSpec: one marker under any sequence of its operations.            *)
(***************************************************************************)
\* the property bags the marker of MarkerSpec is constructed from
MarkerBags ==
    [id : {1}, type : Types, loc : {LatLng(1, 2)}, link : Links,
     layer : {UndefinedStr}, mutable : {TRUE}, command : BOOLEAN,
     zoom : {Null}, percent : {<<>>}, description : {UndefinedStr},
     minZoom : ZoomBounds, maxZoom : ZoomBounds, tooltip : {"hover"}]

\* what the modal hands back as tempMarker
TempMarkers ==
    [type : Types, link : Links, tooltip : {"hover"}, command : BOOLEAN,
     minZoom : ZoomBounds, maxZoom : ZoomBounds]

PluginIdle ==
    /\ maps = <<>> /\ mapFiles = <<>> /\ data = <<>> /\ created = 0
    /\ lastSave = <<>>
    /\ mapId = <<>> /\ markersOf = <<>> /\ overlaysOf = <<>>
    /\ nextId = 0 /\ now = 0 /\ pending = <<>> /\ dragging = <<>>

RtIdle ==
    /\ props = "none" /\ saved1 = "none" /\ saved2 = "none"
    /\ rtStage = "idle"

ParserIdle ==
    /\ block = "none" /\ params = <<>> /\ call = "none"
    /\ promise = "none"

MarkerInit ==
    /\ marker \in {NewMarker(p) : p \in MarkerBags}
    /\ mapLayer = "undefined"
    /\ mapZoom \in Zooms
    /\ lastOp = "new"
    /\ wasDisplayed = FALSE
    /\ RtIdle
    /\ PluginIdle
    /\ ParserIdle

\* the layer of the marker is built: its groups exist from now on
LayerReady ==
    /\ mapLayer = "undefined"
    /\ mapLayer' = "ready"
    /\ lastOp' = "layerReady"
    /\ UNCHANGED <<marker, mapZoom>>

ZoomChange ==
    \E z \in Zooms :
        /\ mapZoom' = z
        /\ lastOp' = "zoom"
        /\ UNCHANGED <<marker, mapLayer>>

Show ==
    /\ marker' = show(marker)
    /\ lastOp' = "show"
    /\ UNCHANGED <<mapLayer, mapZoom>>

Hide ==
    /\ marker' = hide(marker)
    /\ lastOp' = "hide"
    /\ UNCHANGED <<mapLayer, mapZoom>>

Remove ==
    /\ marker' = remove(marker)
    /\ lastOp' = "remove"
    /\ UNCHANGED <<mapLayer, mapZoom>>

SetType ==
    \E x \in Types :
        /\ marker' = setType(marker, x)
        /\ lastOp' = "type"
        /\ UNCHANGED <<mapLayer, mapZoom>>

SetIcon ==
    \E x \in Types :
        /\ marker' = setIcon(marker, MarkerIcon(x))
        /\ lastOp' = "icon"
        /\ UNCHANGED <<mapLayer, mapZoom>>

SetLink ==
    \E x \in Links :
        /\ marker' = setLink(marker, x)
        /\ lastOp' = "link"
        /\ UNCHANGED <<mapLayer, mapZoom>>

SetMutable ==
    \E x \in BOOLEAN :
        /\ marker' = setMutable(marker, x)
        /\ lastOp' = "mutable"
        /\ UNCHANGED <<mapLayer, mapZoom>>

SetCommand ==
    \E b \in BOOLEAN :
        /\ marker' = setCommand(marker, b)
        /\ lastOp' = "command"
        /\ UNCHANGED <<mapLayer, mapZoom>>

OnCloseEdit ==
    \E temp \in TempMarkers :
        /\ marker' = onCloseEdit(marker, temp)
        /\ lastOp' = "edit"
        /\ UNCHANGED <<mapLayer, mapZoom>>

MarkerNext ==
    /\ wasDisplayed' = marker.displayed
    /\ \/ LayerReady
       \/ ZoomChange
       \/ Show
       \/ Hide
       \/ Remove
       \/ SetType
       \/ SetIcon
       \/ SetLink
       \/ SetCommand
       \/ OnCloseEdit
    /\ UNCHANGED <<rtVars, pluginVars, parserVars>>

MarkerSpec == MarkerInit /\ [][MarkerNext]_vars

(***************************************************************************)
(* IconSpec: one marker under any sequence of assignments to its link,     *)
(* mutable, type, icon and command.                                        *)
(***************************************************************************)
IconBags ==
    [id : {1}, type : Types, loc : {LatLng(1, 2)},
     link : Links \cup {UndefinedStr},
     layer : {UndefinedStr}, mutable : BOOLEAN, command : BOOLEAN,
     zoom : {Null}, percent : {<<>>}, description : {UndefinedStr},
     minZoom : {Null}, maxZoom : {Null}, tooltip : {"hover"}]

IconInit ==
    /\ marker \in {NewMarker(p) : p \in IconBags}
    /\ mapLayer = "ready"
    /\ mapZoom = 0
    /\ lastOp = "new"
    /\ wasDisplayed = FALSE
    /\ RtIdle
    /\ PluginIdle
    /\ ParserIdle

IconNext ==
    /\ \/ SetType
       \/ SetIcon
       \/ SetLink
       \/ SetMutable
       \/ SetCommand
    /\ UNCHANGED <<wasDisplayed, rtVars, pluginVars, parserVars>>

IconSpec == IconInit /\ [][IconNext]_vars

(***************************************************************************)
(* RoundTripSpec: p -> new Marker(p) -> toProperties() -> new Marker(..)   *)
(* -> toProperties().                                                      *)
(***************************************************************************)
\* valid property bags (MarkerProperties: loc is a LatLng)
RoundTripBags ==
    [id : {1, 2}, type : Types, loc : {LatLng(10, 30), LatLng(20, 30)},
     link : Links \cup {UndefinedStr}, layer : {UndefinedStr, "base"},
     mutable : BOOLEAN, command : BOOLEAN, zoom : {Null, 1},
     percent : {<<>>, <<1, 2>>}, description : {UndefinedStr, "inn"},
     minZoom : {Null, 0}, maxZoom : {Null, MaxZoomLevel},
     tooltip : {UndefinedStr, "always"}]

MarkerIdle ==
    /\ marker = "none" /\ mapLayer = "undefined" /\ mapZoom = 0
    /\ lastOp = "none" /\ wasDisplayed = FALSE

RoundTripInit ==
    /\ props \in RoundTripBags
    /\ saved1 = "none" /\ saved2 = "none"
    /\ rtStage = "bag"
    /\ MarkerIdle
    /\ PluginIdle
    /\ ParserIdle

\* construct from p, toProperties()
FirstToProperties ==
    /\ rtStage = "bag"
    /\ saved1' = toProperties(NewMarker(props))
    /\ rtStage' = "first"
    /\ UNCHANGED <<props, saved2>>

\* construct from the record, toProperties()
SecondToProperties ==
    /\ rtStage = "first"
    /\ saved2' = toProperties(NewMarker(saved1))
    /\ rtStage' = "done"
    /\ UNCHANGED <<props, saved1>>

RoundTripNext ==
    /\ \/ FirstToProperties
       \/ SecondToProperties
    /\ UNCHANGED <<markerVars, pluginVars, parserVars>>

RoundTripSpec == RoundTripInit /\ [][RoundTripNext]_vars


(***************************************************************************)
(* The plugin shell (main.ts): the registry of open maps, the relay of     *)
(* marker events between maps of one id, and saveSettings.                 *)
(*                                                                         *)
(* A map object is a handle 1..MaxViews; its contentEl is the handle.      *)
(* A marker of a map is [id, loc, latlng, type]: loc is Marker.loc, latlng *)
(* the position of its leafletInstance (they differ during a drag), type   *)
(* stands for what the context menu edits.                                 *)
(***************************************************************************)
\* map objects the model may create
MaxViews == 3
\* markers the model may create or load
MaxMarkers == 2
\* largest coordinate of the model
MaxPos == 1
\* clock ticks of the model
MaxTicks == 1
\* marker-data-updated handlers that may await their save at one time
MaxPending == 2
\* 6.048e8 ms
Week == 604800000

Handles == 1..MaxViews
MarkerIds == 1..MaxMarkers
Positions == 0..MaxPos
Files == {"a.md", "b.md"}
\* the code blocks rendered: the element a block is rendered into and the id
\* of its source ("" when the source has none)
Blocks ==
    {[el |-> "el1", id |-> "X"], [el |-> "el2", id |-> "X"],
     [el |-> "el3", id |-> "Y"], [el |-> "el3", id |-> ""]}

Range(f) == {f[i] : i \in DOMAIN f}
\* Array.prototype.find as an index: the first index of seq in hits, or 0
FindFirst(seq, hits) ==
    IF hits \cap DOMAIN seq # {}
    THEN CHOOSE i \in hits \cap DOMAIN seq :
            \A j \in hits \cap DOMAIN seq : i <= j
    ELSE 0
RemoveAt(seq, i) == [j \in 1..(Len(seq) - 1) |-> IF j < i THEN seq[j] ELSE seq[j + 1]]

\* markers.find((m) => m.id == id)
FindMarker(ms, id) == FindFirst(ms, {i \in DOMAIN ms : ms[i].id = id})
HasMarker(ms, id) == FindMarker(ms, id) # 0

\* Marker.toProperties() as far as the plugin model goes; the entity's own
\* toProperties is above
markerProperties(m) == [id |-> m.id, loc |-> m.loc, type |-> m.type]

\* Marker.setLatLng(latlng)
setLatLng(m, latlng) == [m EXCEPT !.loc = latlng, !.latlng = latlng]

\* BaseMap.addMarker(properties): a new marker from the record
addMarker(ms, p) ==
    Append(ms, [id |-> p.id, loc |-> p.loc, latlng |-> p.loc, type |-> p.type])

\* BaseMap.removeMarker(marker): by marker id
removeMarker(ms, id) == SelectSeq(ms, LAMBDA m : m.id # id)

\* BaseMap.updateMarker(marker): copy the edited properties to the marker of
\* that id
updateMarker(ms, src) ==
    LET i == FindMarker(ms, src.id)
    IN  IF i = 0 THEN ms ELSE [ms EXCEPT ![i].type = src.type]

\* let existingMarker = map.markers.find(m => m.id == marker.id);
\* if (!existingMarker) return; existingMarker.setLatLng(latlng)
setExistingLatLng(ms, id, latlng) ==
    LET i == FindMarker(ms, id)
    IN  IF i = 0 THEN ms ELSE [ms EXCEPT ![i] = setLatLng(@, latlng)]

\* the relay filter without the test of the map id
otherMaps_anyId(map) ==
    SelectSeq(maps, LAMBDA e : e.map # map)

\* this.maps.filter(({id, map: m}) => id == map.id && m.contentEl != map.contentEl)
otherMaps(map) ==
    SelectSeq(maps, LAMBDA e : e.id = mapId[map] /\ e.map # map)

\* the map objects the .forEach of a handler of map visits
targets(map) == {e.map : e \in Range(otherMaps(map))}

\* BaseMap.toProperties(): the record of an open map
mapProperties(h, mk) ==
    [id |-> mapId[h],
     markers |-> [i \in DOMAIN mk[h] |-> markerProperties(mk[h][i])],
     overlays |-> overlaysOf[h],
     lastAccessed |-> now]

\* this.mapFiles.filter(({maps}) => maps.indexOf(id) > -1).map(({file}) => file)
filesOf(id, mf) ==
    LET hit == SelectSeq(mf, LAMBDA f : id \in Range(f.maps))
    IN  [i \in DOMAIN hit |-> hit[i].file]

\* the forEach of saveSettings from entry i on
RECURSIVE saveLoop(_, _, _, _, _)
saveLoop(i, d, mps, mf, mk) ==
    IF i > Len(mps) THEN d
    ELSE LET e == mps[i]
             kept == SelectSeq(d, LAMBDA r : r.id # e.id)
             rec == [id |-> e.id,
                     markers |-> mapProperties(e.map, mk).markers,
                     overlays |-> mapProperties(e.map, mk).overlays,
                     lastAccessed |-> mapProperties(e.map, mk).lastAccessed,
                     files |-> filesOf(e.id, mf)]
         IN  saveLoop(i + 1, Append(kept, rec), mps, mf, mk)

\* the first filter, dropped
hasData_always(r) == TRUE

\* ({markers, overlays}) => markers.length > 0 || overlays.length > 0
hasData(r) == Len(r.markers) > 0 \/ r.overlays > 0

\* ({id, files, lastAccessed = Date.now()}) =>
\*     !id || files.length || Date.now() - lastAccessed <= 6.048e8
recent(r) ==
    LET lastAccessed == IF r.lastAccessed = Null THEN now ELSE r.lastAccessed
    IN  r.id = "" \/ Len(r.files) > 0 \/ now - lastAccessed <= Week

\* saveSettings(), up to the await of saveData: the new data.mapMarkers
saveSettings(d, mps, mf, mk) ==
    LET pushed == saveLoop(1, d, mps, mf, mk)
        withData == SelectSeq(pushed, hasData)
    IN  SelectSeq(withData, recent)

\* a call of saveSettings with these maps, mapFiles and markers
Save(mps, mf, mk) ==
    /\ data' = saveSettings(data, mps, mf, mk)
    /\ lastSave' = [at |-> now, pushed |-> saveLoop(1, data, mps, mf, mk)]

\* ---- the handlers registerMapEvents binds to a map; mk is map.markers of
\* every map when the event is raised, the result is map.markers afterwards

\* a marker-added handler that only saves
onMarkerAdded_noRelay(map, m, mk) == mk

\* map.on("marker-added"), before its saveSettings
onMarkerAdded(map, m, mk) ==
    [h \in DOMAIN mk |->
        IF h \in targets(map) THEN addMarker(mk[h], markerProperties(m))
        ELSE mk[h]]

\* map.on("marker-dragging")
onMarkerDragging(map, m, mk) ==
    [h \in DOMAIN mk |->
        IF h \in targets(map) THEN setExistingLatLng(mk[h], m.id, m.latlng)
        ELSE mk[h]]

\* map.on("marker-data-updated"), after its saveSettings; latlng is
\* marker.leafletInstance.getLatLng() at that time
onMarkerDataUpdated(map, id, latlng, mk) ==
    [h \in DOMAIN mk |->
        IF h \in targets(map) THEN setExistingLatLng(mk[h], id, latlng)
        ELSE mk[h]]

\* map.on("marker-deleted")
onMarkerDeleted(map, m, mk) ==
    [h \in DOMAIN mk |->
        IF h \in targets(map) THEN removeMarker(mk[h], m.id) ELSE mk[h]]

\* map.on("marker-updated")
onMarkerUpdated(map, m, mk) ==
    [h \in DOMAIN mk |->
        IF h \in targets(map) THEN updateMarker(mk[h], m) ELSE mk[h]]

\* ---- the persisted data the plugin is loaded with
LegacyMarker == [id |-> 1, loc |-> 0, type |-> "default"]
LegacyRecord(id, markers, overlays, files, lastAccessed) ==
    [id |-> id, markers |-> markers, overlays |-> overlays, files |-> files,
     lastAccessed |-> lastAccessed]
LegacyStores ==
    {<<>>,
     <<LegacyRecord("X", <<LegacyMarker>>, 0, <<"a.md">>, 0)>>,
     <<LegacyRecord("", <<LegacyMarker>>, 0, <<>>, 0),
       LegacyRecord("Z", <<LegacyMarker>>, 0, <<>>, 1),
       LegacyRecord("Y", <<>>, 0, <<"b.md">>, Null)>>,
     <<LegacyRecord("X", <<LegacyMarker>>, 0, <<>>, 0),
       LegacyRecord("Y", <<>>, 1, <<"b.md">>, 0),
       LegacyRecord("W", <<>>, 0, <<>>, Week)>>}

\* the markers a new map of this id starts with: those of the persisted
\* record of the id
loadMarkers(d, id) ==
    LET i == FindFirst(d, {j \in DOMAIN d : d[j].id = id})
    IN  IF i = 0 THEN <<>>
        ELSE [j \in DOMAIN d[i].markers |->
                 [id |-> d[i].markers[j].id,
                  loc |-> d[i].markers[j].loc,
                  latlng |-> d[i].markers[j].loc,
                  type |-> d[i].markers[j].type]]
loadOverlays(d, id) ==
    LET i == FindFirst(d, {j \in DOMAIN d : d[j].id = id})
    IN  IF i = 0 THEN 0 ELSE d[i].overlays

\* postprocessor(source, el, ctx) on the registry r = [maps, mapFiles,
\* created, mapId, markersOf, overlaysOf], for a source with an id
postprocessor(r, d, b, path) ==
    LET h == r.created + 1
        i == FindFirst(r.mapFiles,
                       {j \in DOMAIN r.mapFiles : r.mapFiles[j].file = path})
    IN  [created |-> h,
         mapId |-> [r.mapId EXCEPT ![h] = b.id],
         markersOf |-> [r.markersOf EXCEPT ![h] = loadMarkers(d, b.id)],
         overlaysOf |-> [r.overlaysOf EXCEPT ![h] = loadOverlays(d, b.id)],
         maps |-> Append(SelectSeq(r.maps, LAMBDA m : m.el # b.el),
                         [map |-> h, el |-> b.el, id |-> b.id]),
         mapFiles |->
            IF i # 0
            THEN [r.mapFiles EXCEPT ![i].maps = Append(@, b.id)]
            ELSE Append(r.mapFiles, [file |-> path, maps |-> <<b.id>>])]

\* no map has been rendered
NoMaps ==
    [created |-> 0,
     mapId |-> [h \in Handles |-> ""],
     markersOf |-> [h \in Handles |-> <<>>],
     overlaysOf |-> [h \in Handles |-> 0],
     maps |-> <<>>,
     mapFiles |-> <<>>]

\* the registry after the blocks bs[1..n] of document path were rendered
RECURSIVE rendered(_, _, _, _)
rendered(d, bs, n, path) ==
    IF n = 0 THEN NoMaps
    ELSE postprocessor(rendered(d, bs, n - 1, path), d, bs[n], path)

\* onload (loadSettings ends with saveSettings) with one of these stores
PluginInit(stores) ==
    /\ now = Week
    /\ \E loaded \in stores :
          /\ data = saveSettings(loaded, <<>>, <<>>, NoMaps.markersOf)
          /\ lastSave = [at |-> now, pushed |-> loaded]
          /\ nextId = IF loaded = <<>> THEN 1 ELSE 2
    /\ pending = <<>>
    /\ dragging = <<>>
    /\ MarkerIdle
    /\ RtIdle
    /\ ParserIdle

\* the registry is r
Registry(r) ==
    /\ maps = r.maps /\ mapFiles = r.mapFiles /\ created = r.created
    /\ mapId = r.mapId /\ markersOf = r.markersOf
    /\ overlaysOf = r.overlaysOf

Registered(v) == \E i \in DOMAIN maps : maps[i].map = v

\* a postprocessor that renders a source without an id as well
Postprocessor_noIdCheck(b, path) ==
    /\ created < MaxViews
    /\ LET r == postprocessor(
                   [created |-> created, mapId |-> mapId,
                    markersOf |-> markersOf, overlaysOf |-> overlaysOf,
                    maps |-> maps, mapFiles |-> mapFiles],
                   data, b, path)
       IN  /\ created' = r.created
           /\ mapId' = r.mapId
           /\ markersOf' = r.markersOf
           /\ overlaysOf' = r.overlaysOf
           /\ maps' = r.maps
           /\ mapFiles' = r.mapFiles
    /\ UNCHANGED <<data, lastSave, nextId, now, pending, dragging>>

\* postprocessor(source, el, ctx)
Postprocessor(b, path) ==
    IF b.id = ""
    THEN \* new Notice(...); throw new Error("ID required")
         UNCHANGED pluginVars
    ELSE /\ created < MaxViews
         /\ LET r == postprocessor(
                        [created |-> created, mapId |-> mapId,
                         markersOf |-> markersOf, overlaysOf |-> overlaysOf,
                         maps |-> maps, mapFiles |-> mapFiles],
                        data, b, path)
            IN  /\ created' = r.created
                /\ mapId' = r.mapId
                /\ markersOf' = r.markersOf
                /\ overlaysOf' = r.overlaysOf
                /\ maps' = r.maps
                /\ mapFiles' = r.mapFiles
         /\ UNCHANGED <<data, lastSave, nextId, now, pending, dragging>>

\* a marker is placed on map v (map.createMarker, as in the drop handler):
\* "marker-added" is raised, its handler relays and saves
CreateMarker(v, loc, type) ==
    /\ Registered(v) /\ dragging = <<>>
    /\ nextId <= MaxMarkers
    /\ LET m == [id |-> nextId, loc |-> loc, latlng |-> loc, type |-> type]
           mk == onMarkerAdded(v, m, [markersOf EXCEPT ![v] = Append(@, m)])
       IN  /\ markersOf' = mk
           /\ Save(maps, mapFiles, mk)
    /\ nextId' = nextId + 1
    /\ UNCHANGED <<maps, mapFiles, created, mapId, overlaysOf, now, pending,
                   dragging>>

\* "drag" of marker id on map v: the proxy is at latlng, "marker-dragging"
Drag(v, id, latlng) ==
    /\ Registered(v) /\ HasMarker(markersOf[v], id)
    /\ dragging \in {<<>>, <<v, id>>}
    /\ LET i == FindMarker(markersOf[v], id)
           m == [markersOf[v][i] EXCEPT !.latlng = latlng]
       IN  /\ m.latlng # markersOf[v][i].latlng
           /\ markersOf' =
                 onMarkerDragging(v, m, [markersOf EXCEPT ![v][i] = m])
    /\ dragging' = <<v, id>>
    /\ UNCHANGED <<maps, mapFiles, data, lastSave, created, mapId, overlaysOf, nextId,
                   now, pending>>

\* "dragend": setLatLng, then "marker-data-updated", whose handler saves and
\* awaits the save before it relays
DragEnd(v, id) ==
    /\ dragging = <<v, id>>
    /\ Len(pending) < MaxPending
    /\ LET i == FindMarker(markersOf[v], id)
           mk == [markersOf EXCEPT ![v][i] = setLatLng(@, @.latlng)]
       IN  /\ markersOf' = mk
           /\ Save(maps, mapFiles, mk)
    /\ pending' = Append(pending, [src |-> v, id |-> id, latlng |-> Null])
    /\ dragging' = <<>>
    /\ UNCHANGED <<maps, mapFiles, created, mapId, overlaysOf, nextId, now>>

\* the save a marker-data-updated handler awaited is done: the relay
DataUpdatedResume(k) ==
    /\ k \in DOMAIN pending
    /\ LET h == pending[k]
           i == FindMarker(markersOf[h.src], h.id)
           latlng == IF h.latlng = Null THEN markersOf[h.src][i].latlng
                     ELSE h.latlng
       IN  markersOf' = onMarkerDataUpdated(h.src, h.id, latlng, markersOf)
    /\ pending' = RemoveAt(pending, k)
    /\ UNCHANGED <<maps, mapFiles, data, lastSave, created, mapId, overlaysOf, nextId,
                   now, dragging>>

\* the context menu of marker id on map v is closed with an edit:
\* "marker-updated", then saveSettings
EditMarker(v, id, type) ==
    /\ Registered(v) /\ HasMarker(markersOf[v], id) /\ dragging = <<>>
    /\ LET i == FindMarker(markersOf[v], id)
           m == [markersOf[v][i] EXCEPT !.type = type]
           mk == onMarkerUpdated(v, m, [markersOf EXCEPT ![v][i] = m])
       IN  /\ markersOf' = mk
           /\ Save(maps, mapFiles, mk)
    /\ UNCHANGED <<maps, mapFiles, created, mapId, overlaysOf, nextId, now,
                   pending, dragging>>

\* a removed marker keeps the position it had: a handler that still holds it
\* reads that position
freeze(pend, before, after) ==
    [k \in DOMAIN pend |->
        IF pend[k].latlng = Null /\ ~HasMarker(after[pend[k].src], pend[k].id)
        THEN [pend[k] EXCEPT !.latlng =
                 before[pend[k].src][FindMarker(before[pend[k].src],
                                                pend[k].id)].latlng]
        ELSE pend[k]]

\* the context menu of marker id on map v is closed with a delete:
\* map.removeMarker(this), then "marker-deleted"
DeleteMarker(v, id) ==
    /\ Registered(v) /\ HasMarker(markersOf[v], id) /\ dragging = <<>>
    /\ LET i == FindMarker(markersOf[v], id)
           m == markersOf[v][i]
           mk == onMarkerDeleted(v, m,
                    [markersOf EXCEPT ![v] = removeMarker(@, id)])
       IN  /\ markersOf' = mk
           /\ pending' = freeze(pending, markersOf, mk)
    /\ UNCHANGED <<maps, mapFiles, data, lastSave, created, mapId, overlaysOf, nextId,
                   now, dragging>>

\* vault.on("rename"); no document exists at the new path
RenameFile(oldPath, path) ==
    LET i == FindFirst(mapFiles,
                       {j \in DOMAIN mapFiles : mapFiles[j].file = oldPath})
    IN  /\ i # 0
        /\ \A f \in Range(mapFiles) : f.file # path
        /\ mapFiles' = [mapFiles EXCEPT ![i].file = path]
        /\ Save(maps, mapFiles', markersOf)
        /\ UNCHANGED <<maps, created, mapId, markersOf, overlaysOf, nextId,
                       now, pending, dragging>>

\* vault.on("delete")
DeleteFile(path) ==
    /\ \E i \in DOMAIN mapFiles : mapFiles[i].file = path
    /\ mapFiles' = SelectSeq(mapFiles, LAMBDA f : f.file # path)
    /\ Save(maps, mapFiles', markersOf)
    /\ UNCHANGED <<maps, created, mapId, markersOf, overlaysOf, nextId, now,
                   pending, dragging>>

\* time passes
Tick ==
    /\ now < Week + MaxTicks
    /\ now' = now + 1
    /\ UNCHANGED <<maps, mapFiles, data, lastSave, created, mapId, markersOf,
                   overlaysOf, nextId, pending, dragging>>

UserNext ==
    \/ \E v \in Handles, loc \in Positions, type \in Types :
          CreateMarker(v, loc, type)
    \/ \E v \in Handles, id \in MarkerIds, latlng \in Positions :
          Drag(v, id, latlng)
    \/ \E v \in Handles, id \in MarkerIds : DragEnd(v, id)
    \/ \E k \in 1..MaxPending : DataUpdatedResume(k)
    \/ \E v \in Handles, id \in MarkerIds, type \in Types :
          EditMarker(v, id, type)
    \/ \E v \in Handles, id \in MarkerIds : DeleteMarker(v, id)

(***************************************************************************)
(* Spec: the relay.  The blocks of the open document have been rendered    *)
(* (any MaxViews renders of blocks with an id, a block may be rendered     *)
(* again); the user places, drags, edits and deletes markers.              *)
(***************************************************************************)
IdBlocks == {b \in Blocks : b.id # ""}

Init ==
    /\ PluginInit({st \in LegacyStores : Len(st) <= 1})
    /\ \E bs \in [1..MaxViews -> IdBlocks] :
          Registry(rendered(data, bs, MaxViews, "a.md"))

Next == UserNext /\ UNCHANGED <<markerVars, rtVars, parserVars>>

Spec == Init /\ [][Next]_vars

(***************************************************************************)
(* StoreSpec: the persisted records.  Blocks of any document are rendered, *)
(* markers are placed and deleted, documents are renamed and deleted, and  *)
(* time passes.                                                            *)
(***************************************************************************)
StoreInit == PluginInit(LegacyStores) /\ Registry(NoMaps)

StoreNext ==
    /\ \/ \E b \in Blocks, path \in Files : Postprocessor(b, path)
       \/ \E v \in Handles : CreateMarker(v, 0, "default")
       \/ \E v \in Handles, id \in MarkerIds : DeleteMarker(v, id)
       \/ \E oldPath \in Files, path \in Files : RenameFile(oldPath, path)
       \/ \E path \in Files : DeleteFile(path)
       \/ Tick
    /\ UNCHANGED <<markerVars, rtVars, parserVars>>

StoreSpec == StoreInit /\ [][StoreNext]_vars

(***************************************************************************)
(* RenderSpec: the handlers of the documents.  Blocks of any document are  *)
(* rendered, with or without an id, documents are renamed and deleted.     *)
(*   call    = [op, id, path]: the handler that ran last, the id of the    *)
(*             source it rendered, the document it was called for          *)
(*   promise = [state, notices]: how the promise of that handler settled   *)
(*             and the notices the handler surfaced                        *)
(***************************************************************************)
NoCall == [op |-> "none", id |-> "", path |-> ""]
NoOutcome == [state |-> "none", notices |-> 0]

\* what a postprocessor call surfaces and how its promise settles:
\* new Notice(...); throw new Error("ID required") when the source has no id
outcomeOf(b) ==
    IF b.id = "" THEN [state |-> "rejected", notices |-> 1]
    ELSE [state |-> "resolved", notices |-> 0]

RenderInit ==
    /\ now = Week
    /\ \E loaded \in LegacyStores :
          /\ data = saveSettings(loaded, <<>>, <<>>, NoMaps.markersOf)
          /\ lastSave = [at |-> now, pushed |-> loaded]
          /\ nextId = IF loaded = <<>> THEN 1 ELSE 2
    /\ pending = <<>>
    /\ dragging = <<>>
    /\ Registry(NoMaps)
    /\ call = NoCall
    /\ promise = NoOutcome
    /\ block = "none"
    /\ params = <<>>
    /\ MarkerIdle
    /\ RtIdle

\* the host calls postprocessor(source, el, ctx) for a block of a document
Render(b, path) ==
    /\ Postprocessor(b, path)
    /\ call' = [op |-> "postprocessor", id |-> b.id, path |-> path]
    /\ promise' = outcomeOf(b)

\* the host raises "rename" for a document
Rename(oldPath, path) ==
    /\ RenameFile(oldPath, path)
    /\ call' = [op |-> "rename", id |-> "", path |-> oldPath]
    /\ promise' = [state |-> "resolved", notices |-> 0]

\* the host raises "delete" for a document
Delete(path) ==
    /\ DeleteFile(path)
    /\ call' = [op |-> "delete", id |-> "", path |-> path]
    /\ promise' = [state |-> "resolved", notices |-> 0]

RenderNext ==
    /\ \/ \E b \in Blocks, path \in Files : Render(b, path)
       \/ \E oldPath \in Files, path \in Files : Rename(oldPath, path)
       \/ \E path \in Files : Delete(path)
    /\ UNCHANGED <<markerVars, rtVars, block, params>>

RenderSpec == RenderInit /\ [][RenderNext]_vars



(***************************************************************************)
(* Text.  A string is a sequence of atoms; an atom is a word (a key, a     *)
(* value word, a digit), a punctuation character, a white-space character  *)
(* or a whole double-bracket link token.  The string operations of the     *)
(* source work on the atoms as they do on the characters.                  *)
(***************************************************************************)
NL == "\n"
SP == " "
WhiteSpace == {SP, NL}

\* t[i..] starts with pat
StartsAt(t, pat, i) ==
    /\ i >= 1
    /\ i + Len(pat) - 1 <= Len(t)
    /\ \A k \in 1..Len(pat) : t[i + k - 1] = pat[k]

\* String.prototype.indexOf(pat, from), 1-based; 0 when absent
IndexOf(t, pat, from) ==
    IF \E i \in from..Len(t) : StartsAt(t, pat, i)
    THEN CHOOSE i \in from..Len(t) :
            StartsAt(t, pat, i) /\ \A j \in from..(i - 1) : ~StartsAt(t, pat, j)
    ELSE 0

\* t.slice(i - 1, j): the atoms i..j
Slice(t, i, j) == SubSeq(t, i, j)

\* String.prototype.includes(pat)
Includes(t, pat) == IndexOf(t, pat, 1) # 0

\* String.prototype.replace(pat, rep) with a string pattern: the first
\* occurrence only
replace(t, pat, rep) ==
    LET i == IndexOf(t, pat, 1)
    IN  IF i = 0 THEN t
        ELSE Slice(t, 1, i - 1) \o rep \o Slice(t, i + Len(pat), Len(t))

\* String.prototype.split(sep) with a string separator
RECURSIVE split(_, _)
split(t, sep) ==
    LET i == IndexOf(t, sep, 1)
    IN  IF i = 0 THEN <<t>>
        ELSE <<Slice(t, 1, i - 1)>> \o split(Slice(t, i + Len(sep), Len(t)), sep)

\* String.prototype.split(/pat\s?/): pat and one white-space atom after it,
\* if there is one, separate
RECURSIVE splitOptWs(_, _)
splitOptWs(t, pat) ==
    LET i == IndexOf(t, pat, 1)
        e == i + Len(pat)
        next == IF e <= Len(t) /\ t[e] \in WhiteSpace THEN e + 1 ELSE e
    IN  IF i = 0 THEN <<t>>
        ELSE <<Slice(t, 1, i - 1)>> \o splitOptWs(Slice(t, next, Len(t)), pat)

\* String.prototype.trim()
RECURSIVE trim(_)
trim(t) ==
    IF t # <<>> /\ t[1] \in WhiteSpace THEN trim(Tail(t))
    ELSE IF t # <<>> /\ t[Len(t)] \in WhiteSpace
         THEN trim(Slice(t, 1, Len(t) - 1))
         ELSE t

\* where $ of a multi-line regular expression holds: before position i
\* when the text ends there or a line break is at i
AtLineEnd(t, i) == i > Len(t) \/ t[i] = NL
\* where ^ of a multi-line regular expression holds
AtLineStart(t, i) == i = 1 \/ t[i - 1] = NL

\* the end of [\s\S]*?$ started at position i: the last atom before the
\* first line end at or after i
LazyToLineEnd(t, i) ==
    (CHOOSE j \in i..(Len(t) + 1) :
        AtLineEnd(t, j) /\ \A k \in i..(j - 1) : ~AtLineEnd(t, k)) - 1

\* source.match(/^\bkey\b:[\s\S]*?$/gm) (optWs false) and
\* source.match(/^\bkey\b:\s?([\s\S]*?)$/gm) (optWs true) from position
\* `from` on: the matched substrings in order; `|| []` is included
RECURSIVE matchLines(_, _, _, _)
matchLines(t, key, optWs, from) ==
    LET hits == {i \in from..Len(t) :
                    AtLineStart(t, i) /\ StartsAt(t, <<key, ":">>, i)}
    IN  IF hits = {} THEN <<>>
        ELSE LET i == CHOOSE h \in hits : \A g \in hits : h <= g
                 v == IF optWs /\ i + 2 <= Len(t) /\ t[i + 2] \in WhiteSpace
                      THEN i + 3 ELSE i + 2
                 e == LazyToLineEnd(t, v)
             IN  <<Slice(t, i, e)>> \o matchLines(t, key, optWs, e + 1)


(***************************************************************************)
(* JavaScript values of the parser: [kind, text, items].                   *)
(*   "undefined", "null"; "str" and "num" with their text; "arr" with its  *)
(*   items; "obj" with its entries [key, val] in property order.           *)
(***************************************************************************)
Undef == [kind |-> "undefined", text |-> <<>>, items |-> <<>>]
JsNull == [kind |-> "null", text |-> <<>>, items |-> <<>>]
Str(t) == [kind |-> "str", text |-> t, items |-> <<>>]
Num(t) == [kind |-> "num", text |-> t, items |-> <<>>]
Arr(items) == [kind |-> "arr", text |-> <<>>, items |-> items]
Obj(entries) == [kind |-> "obj", text |-> <<>>, items |-> entries]

Digit == <<"0", "1", "2", "3", "4", "5", "6", "7", "8", "9">>
DigitAtoms == {Digit[i] : i \in 1..10}

\* !v
Falsy(v) ==
    \/ v.kind \in {"undefined", "null"}
    \/ v.kind = "str" /\ v.text = <<>>
    \/ v.kind = "num" /\ v.text = <<"0">>

\* v[key] of an object; undefined for a missing property and for a value
\* that has no such property
Get(v, key) ==
    IF v.kind = "obj" /\ \E i \in DOMAIN v.items : v.items[i].key = key
    THEN v.items[CHOOSE i \in DOMAIN v.items : v.items[i].key = key].val
    ELSE Undef

\* entries[key] = val: a new property goes last, an old one keeps its place
Put(entries, key, val) ==
    IF \E i \in DOMAIN entries : entries[i].key = key
    THEN [i \in DOMAIN entries |->
            IF entries[i].key = key THEN [key |-> key, val |-> val]
            ELSE entries[i]]
    ELSE Append(entries, [key |-> key, val |-> val])

\* Object.fromEntries(pairs): pairs[i] is an array, its first two elements
\* the key and the value
RECURSIVE fromEntries(_)
fromEntries(pairs) ==
    IF pairs = <<>> THEN <<>>
    ELSE LET last == pairs[Len(pairs)]
             val == IF Len(last) >= 2 THEN Str(last[2]) ELSE Undef
         IN  Put(fromEntries(SubSeq(pairs, 1, Len(pairs) - 1)), last[1], val)

(***************************************************************************)
(* Double-bracket link tokens and their placeholders                       *)
(***************************************************************************)
\* link tokens of the model: plain ones, one with an alias in double
\* quotes, one with a backslash before n, one with a backslash before d
PlainLinks == {"[[A]]", "[[B:C|D]]"}
QuoteLinks == {"[[Q|\"x\"]]"}
EscapeLinks == {"[[E\\nF]]"}
BadEscapeLinks == {"[[G\\d]]"}
LinkTokens == PlainLinks \cup QuoteLinks \cup EscapeLinks \cup BadEscapeLinks

\* source.match(/\[\[([^\[\]]*?)\]\]/g) ?? []
RECURSIVE matchLinks(_)
matchLinks(t) ==
    IF t = <<>> THEN <<>>
    ELSE IF t[1] \in LinkTokens THEN <<t[1]>> \o matchLinks(Tail(t))
         ELSE matchLinks(Tail(t))

\* links.indexOf(link), 0-based
indexOf(links, token) ==
    (CHOOSE i \in DOMAIN links :
        links[i] = token /\ \A j \in 1..(i - 1) : links[j] # token) - 1

\* the decimal digits of n
RECURSIVE Digits(_)
Digits(n) ==
    IF n < 10 THEN <<Digit[n + 1]>>
    ELSE Digits(n \div 10) \o <<Digit[(n % 10) + 1]>>

\* `LEAFLET_INTERNAL_LINK_${n}`
Placeholder(n) == <<"LEAFLET_INTERNAL_LINK_">> \o Digits(n)


(***************************************************************************)
(* parseYaml(source) of the host, for the texts of the model: lines that   *)
(* are not indented, each a mapping entry `key: value` / `key:` with a     *)
(* one-word key, or a line of plain text; a value is plain text, a number  *)
(* or a one-level flow sequence.  The result is [threw, value].            *)
(***************************************************************************)
Punctuation == {":", ",", "[", "]"}
IsWord(a) == a \notin Punctuation \cup WhiteSpace \cup LinkTokens

Threw == [threw |-> TRUE, value |-> Undef]
Returned(v) == [threw |-> FALSE, value |-> v]

\* the lines of a text that are not blank
yamlLines(t) == SelectSeq(split(t, <<NL>>), LAMBDA l : trim(l) # <<>>)

\* `key:` at the end of the line or `key: `
IsEntry(l) ==
    /\ Len(l) >= 2 /\ IsWord(l[1]) /\ l[2] = ":"
    /\ (Len(l) = 2 \/ l[3] = SP)

EntryValue(l) == trim(Slice(l, 3, Len(l)))

\* a value the YAML grammar rejects: a further `: ` or a trailing colon in
\* plain text, a flow sequence that is not closed
BadValue(t) ==
    \/ Includes(t, <<":", SP>>)
    \/ t # <<>> /\ t[Len(t)] = ":"
    \/ t # <<>> /\ t[1] = "[" /\ t[Len(t)] # "]"

\* a plain scalar: null, a number or a string
yamlPlain(t) ==
    IF t = <<>> THEN JsNull
    ELSE IF Len(t) = 1 /\ t[1] \in DigitAtoms THEN Num(t)
    ELSE Str(t)

\* a scalar or a flow sequence of plain scalars
yamlValue(t) ==
    IF t # <<>> /\ t[1] = "["
    THEN LET inner == trim(Slice(t, 2, Len(t) - 1))
             parts == splitOptWs(inner, <<",">>)
         IN  IF inner = <<>> THEN Arr(<<>>)
             ELSE Arr([i \in DOMAIN parts |-> yamlPlain(trim(parts[i]))])
    ELSE yamlPlain(t)

\* the lines of a plain multi-line scalar, folded
RECURSIVE fold(_)
fold(ls) ==
    IF Len(ls) = 1 THEN trim(ls[1])
    ELSE trim(ls[1]) \o <<SP>> \o fold(Tail(ls))

\* the mapping of the entry lines ls; a key met again replaces the value
RECURSIVE yamlMapping(_)
yamlMapping(ls) ==
    IF ls = <<>> THEN <<>>
    ELSE LET l == ls[Len(ls)]
         IN  Put(yamlMapping(SubSeq(ls, 1, Len(ls) - 1)), <<l[1]>>,
                 yamlValue(EntryValue(l)))

\* parseYaml(source); block.dup says what the host's parser does with a
\* mapping key met twice: "throw" or "last"
parseYaml(t) ==
    LET ls == yamlLines(t)
        entries == {i \in DOMAIN ls : IsEntry(ls[i])}
    IN  IF ls = <<>> THEN Returned(JsNull)
        ELSE IF entries = {}
             THEN IF BadValue(fold(ls)) THEN Threw
                  ELSE Returned(yamlValue(fold(ls)))
        ELSE IF entries # DOMAIN ls THEN Threw
        ELSE IF \E i \in DOMAIN ls : BadValue(EntryValue(ls[i])) THEN Threw
        ELSE IF /\ block.dup = "throw"
                /\ \E i, j \in DOMAIN ls : i # j /\ ls[i][1] = ls[j][1]
             THEN Threw
        ELSE Returned(Obj(yamlMapping(ls)))

(***************************************************************************)
(* JSON.stringify, the replacement of the placeholders in the JSON text,   *)
(* JSON.parse.  The JSON text is not built: a replacement is made in the   *)
(* first string of the value, in the order JSON.stringify writes them,     *)
(* that holds the pattern; JSON.parse then meets the link tokens as they   *)
(* were written into the text, not escaped.                                *)
(***************************************************************************)
\* what JSON.parse reads a link token written into a string as: the token
\* with \n read as a line feed
Decoded(a) == IF a = "[[E\\nF]]" THEN "[[E\nF]]" ELSE a

\* stringified.replace(pat, rep) seen on the value v the JSON text was
\* written from: [hit, v].  A property whose value is undefined is not in
\* the JSON text.
RECURSIVE replaceInValue(_, _, _)
RECURSIVE replaceInItems(_, _, _)
RECURSIVE replaceInEntries(_, _, _)
replaceInValue(v, pat, rep) ==
    IF v.kind = "str"
    THEN [hit |-> Includes(v.text, pat), v |-> Str(replace(v.text, pat, rep))]
    ELSE IF v.kind = "arr"
    THEN LET r == replaceInItems(v.items, pat, rep)
         IN  [hit |-> r.hit, v |-> Arr(r.items)]
    ELSE IF v.kind = "obj"
    THEN LET r == replaceInEntries(v.items, pat, rep)
         IN  [hit |-> r.hit, v |-> Obj(r.items)]
    ELSE [hit |-> FALSE, v |-> v]

replaceInItems(items, pat, rep) ==
    IF items = <<>> THEN [hit |-> FALSE, items |-> <<>>]
    ELSE LET r == replaceInValue(items[1], pat, rep)
             rest == replaceInItems(Tail(items), pat, rep)
         IN  IF r.hit THEN [hit |-> TRUE, items |-> <<r.v>> \o Tail(items)]
             ELSE [hit |-> rest.hit, items |-> <<items[1]>> \o rest.items]

replaceInEntries(entries, pat, rep) ==
    IF entries = <<>> THEN [hit |-> FALSE, items |-> <<>>]
    ELSE LET e == entries[1]
             r == replaceInValue(e.val, pat, rep)
             rest == replaceInEntries(Tail(entries), pat, rep)
         IN  IF e.val.kind = "undefined"
             THEN [hit |-> rest.hit, items |-> <<e>> \o rest.items]
             ELSE IF Includes(e.key, pat)
             THEN [hit |-> TRUE,
                   items |-> <<[key |-> replace(e.key, pat, rep),
                                val |-> e.val]>> \o Tail(entries)]
             ELSE IF r.hit
             THEN [hit |-> TRUE,
                   items |-> <<[key |-> e.key, val |-> r.v]>> \o Tail(entries)]
             ELSE [hit |-> rest.hit, items |-> <<e>> \o rest.items]

\* the placeholders of links[i..] replaced in the value, as the loop of
\* getParamsFromSource does
RECURSIVE restoreLinks(_, _, _)
restoreLinks(v, links, i) ==
    IF i > Len(links) THEN v
    ELSE restoreLinks(
            replaceInValue(v, Placeholder(indexOf(links, links[i])),
                           <<links[i]>>).v,
            links, i + 1)

\* the same loop on the source text
RECURSIVE restoreSource(_, _, _)
restoreSource(t, links, i) ==
    IF i > Len(links) THEN t
    ELSE restoreSource(
            replace(t, Placeholder(indexOf(links, links[i])), <<links[i]>>),
            links, i + 1)

\* the first loop of getParamsFromSource: every link token of the source
\* replaced by its placeholder
RECURSIVE hideLinks(_, _, _)
hideLinks(t, links, i) ==
    IF i > Len(links) THEN t
    ELSE hideLinks(
            replace(t, <<links[i]>>, Placeholder(indexOf(links, links[i]))),
            links, i + 1)

\* a string of the JSON text that JSON.parse rejects: an unescaped double
\* quote or a backslash before a letter that is no escape
BadJson(t) ==
    \E i \in DOMAIN t : t[i] \in QuoteLinks \cup BadEscapeLinks

jsonText(t) == [i \in DOMAIN t |-> Decoded(t[i])]

\* does JSON.parse throw on the JSON text written from v
RECURSIVE jsonThrows(_)
jsonThrows(v) ==
    \/ v.kind = "str" /\ BadJson(v.text)
    \/ v.kind = "arr" /\ \E i \in DOMAIN v.items : jsonThrows(v.items[i])
    \/ v.kind = "obj" /\ \E i \in DOMAIN v.items :
            /\ v.items[i].val.kind # "undefined"
            /\ BadJson(v.items[i].key) \/ jsonThrows(v.items[i].val)

\* the properties JSON.parse reads, in order; a key read again replaces
RECURSIVE jsonEntries(_)
\* JSON.parse of the JSON text written from v, when it does not throw
RECURSIVE jsonParse(_)
jsonEntries(entries) ==
    IF entries = <<>> THEN <<>>
    ELSE LET e == entries[Len(entries)]
             front == jsonEntries(SubSeq(entries, 1, Len(entries) - 1))
         IN  IF e.val.kind = "undefined" THEN front
             ELSE Put(front, jsonText(e.key), jsonParse(e.val))

jsonParse(v) ==
    IF v.kind = "str" THEN Str(jsonText(v.text))
    ELSE IF v.kind = "arr"
    THEN Arr([i \in DOMAIN v.items |->
                IF v.items[i].kind = "undefined" THEN JsNull
                ELSE jsonParse(v.items[i])])
    ELSE IF v.kind = "obj" THEN Obj(jsonEntries(v.items))
    ELSE v


(***************************************************************************)
(* getParamsFromSource(source)                                             *)
(*   The result is [threw, base, layers, image, obj]: whether the call     *)
(*   threw, the parsed parameters before layers, image and the marker keys *)
(*   are assigned to them, and the assigned values.                        *)
(***************************************************************************)
MarkerKeys == {"marker", "markerFile", "markerFolder", "markerTag",
               "commandMarker", "geojson", "linksTo", "linksFrom"}

Real == Str(<<"real">>)

ParamsThrew ==
    [threw |-> TRUE, base |-> Undef, layers |-> Undef, image |-> Undef,
     obj |-> [k \in MarkerKeys |-> Undef]]

\* source.split("\n").map((l) => l.split(/:\s?/)), then Object.fromEntries
fallbackParams(t) ==
    LET ls == split(t, <<NL>>)
    IN  Obj(fromEntries([i \in DOMAIN ls |-> splitOptWs(ls[i], <<":">>)]))

\* try { parseYaml } catch { the line-by-line parser }; if (!params) {}
parsedParams(t) ==
    LET y == parseYaml(t)
        p == IF y.threw THEN fallbackParams(t) ELSE y.value
    IN  IF Falsy(p) THEN Obj(<<>>) ELSE p

\* the layers read from the image: lines, when there are two or more;
\* undefined otherwise
imageLayers(source) ==
    LET ms == matchLines(source, "image", FALSE, 1)
    IN  IF Len(ms) > 1
        THEN Arr([i \in DOMAIN ms |->
                LET parts == split(ms[i], <<"image", ":", SP>>)
                IN  IF Len(parts) >= 2 THEN Str(parts[2]) ELSE Undef])
        ELSE Undef

\* the image of the parameters as a list
imageOf(p) ==
    LET img == Get(p, <<"image">>)
    IN  IF img.kind = "str" THEN Arr(<<img>>)
        ELSE IF img.kind = "arr" THEN img
        ELSE Arr(<<Real>>)

\* the value of the lines of one marker key, as obj[type] gets it
linesOf(source, p, type) ==
    LET ms == matchLines(source, type, TRUE, 1)
        val == Get(p, <<type>>)
        lineValue(m) ==
            LET parts == splitOptWs(m, <<type, ":">>)
                tags == splitOptWs(trim(parts[2]), <<",">>)
            IN  IF Len(parts) < 2 THEN Undef
                ELSE IF type = "markerTag"
                THEN Arr([j \in DOMAIN tags |-> Str(tags[j])])
                ELSE Str(trim(parts[2]))
    IN  IF Len(ms) > 1 THEN Arr([i \in DOMAIN ms |-> lineValue(ms[i])])
        ELSE IF val.kind = "arr"
        THEN IF type = "markerTag"
             THEN Arr([i \in DOMAIN val.items |->
                        IF val.items[i].kind = "arr" THEN val.items[i]
                        ELSE Arr(<<val.items[i]>>)])
             ELSE val
        ELSE IF val.kind # "undefined"
        THEN IF type = "markerTag" THEN Arr(<<Arr(<<val>>)>>)
             ELSE Arr(<<val>>)
        ELSE Arr(<<>>)

\* new RegExp("(marker|markerFile|...)").test(source)
namesMarkerKey(source) == \E i \in DOMAIN source : source[i] \in MarkerKeys

getParamsFromSource(source) ==
    LET links == matchLinks(source)
        hidden == hideLinks(source, links, 1)
        p0 == parsedParams(hidden)
        restored == restoreLinks(p0, links, 1)
        throws == links # <<>> /\ jsonThrows(restored)
        p == IF links # <<>> THEN jsonParse(restored) ELSE p0
        src == IF links # <<>> THEN restoreSource(hidden, links, 1)
               ELSE hidden
        ls == imageLayers(src)
        layers == IF ls.kind = "undefined" THEN imageOf(p) ELSE ls
        image == IF layers.items = <<>> THEN Undef ELSE layers.items[1]
    IN  IF throws \/ p.kind \in {"str", "num"} THEN ParamsThrew
        ELSE [threw |-> FALSE, base |-> p, layers |-> layers,
              image |-> image,
              obj |-> [k \in MarkerKeys |->
                        IF namesMarkerKey(src) THEN linesOf(src, p, k)
                        ELSE Arr(<<>>)]]


(***************************************************************************)
(* ParamsSpec: a code block of up to MaxLines lines is parsed.             *)
(*   block  = [lines, dup]: the lines of the block and what the host's     *)
(*            YAML parser does with a repeated key                         *)
(*   params = <<the result of getParamsFromSource>>, <<>> before the call  *)
(***************************************************************************)
MaxLines == 3

BlockLines ==
    { <<"image", ":", SP, "a">>,
      <<"image", ":", "b">>,
      <<"image", ":">>,
      <<"image", ":", SP, "[", "]">>,
      <<"id", ":", SP, "x">>,
      <<"hello">>,
      <<"marker", ":", SP, "a">>,
      <<"marker", ":">>,
      <<"marker", ":", SP, "pin", ",", "1", ",", "1", ",", "[[B:C|D]]">>,
      <<"marker", ":", SP, "[[A]]">>,
      <<"marker", ":", SP, "[[Q|\"x\"]]">>,
      <<"marker", ":", SP, "[[E\\nF]]">>,
      <<"marker", ":", SP, "[[G\\d]]">>,
      <<"markerTag", ":", SP, "t", ",", SP, "u">> }

CodeBlocks ==
    [lines : UNION {[1..n -> BlockLines] : n \in 1..MaxLines},
     dup : {"throw", "last"}]

\* the lines joined by line breaks
RECURSIVE join(_)
join(ls) ==
    IF ls = <<>> THEN <<>>
    ELSE IF Len(ls) = 1 THEN ls[1]
    ELSE ls[1] \o <<NL>> \o join(Tail(ls))

Source == join(block.lines)

ParamsInit ==
    /\ block \in CodeBlocks
    /\ params = <<>>
    /\ call = "none"
    /\ promise = "none"
    /\ MarkerIdle
    /\ RtIdle
    /\ PluginIdle

Parse ==
    /\ params = <<>>
    /\ params' = <<getParamsFromSource(Source)>>
    /\ UNCHANGED <<block, call, promise>>

ParamsNext == Parse /\ UNCHANGED <<markerVars, rtVars, pluginVars>>

ParamsSpec == ParamsInit /\ [][ParamsNext]_vars


(***************************************************************************)
(* getImmutableItems(app, markers, commandMarkers, ...)                    *)
(*   A row is the first record parseCSV reads from a marker string: the    *)
(*   sequence of its fields, each a string.  A field the row does not have *)
(*   is undefined after the destructuring; it is Missing here.             *)
(***************************************************************************)
Missing == "(missing)"
NaN == -3

Field(row, i) == IF i <= Len(row) THEN row[i] ELSE Missing

\* Number(s) of a field: 0 for the empty string, the number of a digit,
\* NaN for undefined and for other text
NumberOf(s) ==
    IF s = "" THEN 0
    ELSE IF \E n \in 0..9 : Digit[n + 1] = s
    THEN CHOOSE n \in 0..9 : Digit[n + 1] = s
    ELSE NaN

\* !s || !s.length || s === "undefined"
Blank(s) == s = Missing \/ s = "" \/ s = "undefined"

\* !lat || !lat.length || isNaN(Number(lat))
BadCoordinate(s) == s = Missing \/ s = "" \/ NumberOf(s) = NaN

\* if (isNaN(Number(minZoom))) min = undefined; else min = Number(minZoom)
zoomOf(s) == IF NumberOf(s) = NaN THEN Undefined ELSE NumberOf(s)

\* the literal "undefined" kept as a type
typeOf_keepsUndefined(s) == IF s = Missing \/ s = "" THEN "default" ELSE s

\* the type of the tuple
typeOf(s) == IF Blank(s) THEN "default" ELSE s

\* /\[\[[\s\S]+\]\]/.test(link), parseLink(link) for the links of the model
WikiLinks == {"[[A]]"}
parseLink(s) == IF s = "[[A]]" THEN "A" ELSE s

\* the link of the tuple of a marker row; undefined is UndefinedStr
linkOf(s) ==
    IF Blank(s) THEN UndefinedStr
    ELSE IF s \in WikiLinks THEN parseLink(s)
    ELSE s

layerOf(s) == IF Blank(s) THEN UndefinedStr ELSE s

\* app.commands.listCommands()
Commands ==
    << [name |-> "Save", id |-> "app:save"],
       [name |-> "Open", id |-> "app:open"] >>

\* commands.find(({ name: n, id }) => n == link || id == link): the index
\* of the command, 0 when find returns undefined
findCommand(s) ==
    LET hits == {i \in DOMAIN Commands :
                    Commands[i].name = s \/ Commands[i].id = s}
    IN  IF hits = {} THEN 0 ELSE CHOOSE i \in hits : \A j \in hits : i <= j

\* is the row skipped with a notice
Skipped(row) ==
    BadCoordinate(Field(row, 2)) \/ BadCoordinate(Field(row, 3))

\* the tuple pushed for an accepted row; link is the link or the command id
tupleOf(row, target, command) ==
    [type |-> typeOf(Field(row, 1)),
     lat |-> NumberOf(Field(row, 2)),
     long |-> NumberOf(Field(row, 3)),
     link |-> target,
     layer |-> layerOf(Field(row, 5)),
     command |-> command,
     id |-> Null,
     desc |-> Null,
     minZoom |-> zoomOf(Field(row, 6)),
     maxZoom |-> zoomOf(Field(row, 7))]

\* for (let marker of markers) { ... }
RECURSIVE markerRows(_)
markerRows(rows) ==
    IF rows = <<>> THEN <<>>
    ELSE IF Skipped(rows[1]) THEN markerRows(Tail(rows))
    ELSE <<tupleOf(rows[1], linkOf(Field(rows[1], 4)), FALSE)>>
            \o markerRows(Tail(rows))

\* for (let marker of commandMarkers) { ... }: [threw, tuples]; the
\* destructuring of the result of find throws when no command is found
RECURSIVE commandRows(_)
commandRows(rows) ==
    IF rows = <<>> THEN [threw |-> FALSE, tuples |-> <<>>]
    ELSE LET found == findCommand(linkOf(Field(rows[1], 4)))
             rest == commandRows(Tail(rows))
         IN  IF Skipped(rows[1]) THEN rest
             ELSE IF found = 0 THEN [threw |-> TRUE, tuples |-> <<>>]
             ELSE [threw |-> rest.threw,
                   tuples |-> IF rest.threw THEN <<>>
                              ELSE <<tupleOf(rows[1], Commands[found].id,
                                             TRUE)>> \o rest.tuples]

\* new Promise(async (resolve, reject) => { ... resolve({markers, ...}) }):
\* the promise the call returns.  The executor is an async function: an
\* exception in it rejects the promise of the executor, which nothing
\* holds, and leaves the returned promise pending; reject is never called.
getImmutableItems(markers, commandMarkers) ==
    LET cmds == commandRows(commandMarkers)
    IN  IF cmds.threw
        THEN [state |-> "pending", executor |-> "threw", markers |-> <<>>]
        ELSE [state |-> "resolved", executor |-> "returned",
              markers |-> markerRows(markers) \o cmds.tuples]


(***************************************************************************)
(* ItemsSpec: getImmutableItems is called with up to MaxRows rows.         *)
(*   call    = [markers, commandMarkers]: the rows of the call             *)
(*   promise = [state, executor, markers]: the promise the call returned,  *)
(*             how its executor ended, the marker tuples it resolved with  *)
(***************************************************************************)
MaxRows == 1

RowTails ==
    {<<>>, <<"">>}
        \cup {<<"", mn>> : mn \in {"", "2", "x"}}
        \cup {<<"", mn, mx>> : mn \in {"", "2", "x"}, mx \in {"", "1"}}

Rows ==
    {<<type, lat, "1", target>> \o tail :
        type \in {"", "undefined", "default", "pin"},
        lat \in {"1", "x"},
        target \in {"Save", "save", "app:save", "[[A]]"},
        tail \in RowTails}

\* the calls with up to MaxRows rows in all: k marker rows and j
\* command-marker rows
Calls ==
    UNION {UNION {[markers : [1..k -> Rows], commandMarkers : [1..j -> Rows]] :
                    j \in 0..(MaxRows - k)} :
            k \in 0..MaxRows}

NotCalled == [state |-> "none", executor |-> "none", markers |-> <<>>]

ItemsInit ==
    /\ call \in Calls
    /\ promise = NotCalled
    /\ block = "none"
    /\ params = <<>>
    /\ MarkerIdle
    /\ RtIdle
    /\ PluginIdle

GetItems ==
    /\ promise = NotCalled
    /\ promise' = getImmutableItems(call.markers, call.commandMarkers)
    /\ UNCHANGED <<block, params, call>>

ItemsNext == GetItems /\ UNCHANGED <<markerVars, rtVars, pluginVars>>

ItemsSpec == ItemsInit /\ [][ItemsNext]_vars


(***************************************************************************)
(* The vault getImmutableItems resolves documents in, and the part of the  *)
(* call that builds the set of documents (`files`).  A JavaScript Set is a *)
(* sequence without repetitions, in insertion order.                       *)
(***************************************************************************)
\* the markdown documents of the vault: path, link text, folder, tags
Vault ==
    << [path |-> "A.md", linktext |-> "A", folder |-> "", tags |-> {"x", "y"}],
       [path |-> "F/B.md", linktext |-> "B", folder |-> "F", tags |-> {"x"}],
       [path |-> "F/C.md", linktext |-> "C", folder |-> "F", tags |-> {"y"}] >>

\* set.add(x)
add(set, x) == IF \E i \in DOMAIN set : set[i] = x THEN set ELSE Append(set, x)

\* items.forEach(set.add, set)
RECURSIVE addAll(_, _)
addAll(set, items) ==
    IF items = <<>> THEN set
    ELSE addAll(add(set, items[1]), Tail(items))

has(set, x) == \E i \in DOMAIN set : set[i] = x

\* app.metadataCache.getFirstLinkpathDest(linkpath, ""): the index of the
\* document a path or a link text names, 0 for null
getFirstLinkpathDest(s) ==
    LET hits == {i \in DOMAIN Vault :
                    Vault[i].path = s \/ Vault[i].linktext = s}
    IN  IF hits = {} THEN 0 ELSE CHOOSE i \in hits : TRUE

\* the paths Vault.recurseChildren visits under a folder, in vault order
childrenOf(folder) ==
    LET inside == SelectSeq(Vault, LAMBDA d : d.folder = folder)
    IN  [i \in DOMAIN inside |-> inside[i].path]

\* for (let path of markerFolders) { ... }
RECURSIVE expandFolders(_, _)
expandFolders(files, folders) ==
    IF folders = <<>> THEN files
    ELSE LET path == folders[1]
             next ==
                IF \E i \in DOMAIN Vault : Vault[i].path = path
                THEN add(files, path)
                ELSE addAll(files, childrenOf(path))
         IN  expandFolders(next, Tail(folders))

\* cache.tags.getInverse(tag): the paths of the documents that carry the
\* tag; a tag is a text, <<"#", "x">> for #x
getInverse(tag) ==
    LET tagged == SelectSeq(Vault, LAMBDA d :
                    Len(tag) = 2 /\ tag[1] = "#" /\ tag[2] \in d.tags)
    IN  [i \in DOMAIN tagged |-> tagged[i].path]

\* tags.filter((tag) => tag).map((tag) => { if (!tag.includes("#")) tag =
\* `#${tag}`; return cache.tags.getInverse(tag.trim()); })
filteredOf(tags) ==
    LET kept == SelectSeq(tags, LAMBDA tag : tag # <<>>)
    IN  [i \in DOMAIN kept |->
            getInverse(trim(IF Includes(kept[i], <<"#">>) THEN kept[i]
                            ELSE <<"#">> \o kept[i]))]

\* filtered.reduce((a, b) => new Set([...b].filter(Set.prototype.has,
\* new Set(a))))
RECURSIVE reduceIntersect(_)
reduceIntersect(sets) ==
    IF Len(sets) = 1 THEN sets[1]
    ELSE LET a == reduceIntersect(SubSeq(sets, 1, Len(sets) - 1))
             b == sets[Len(sets)]
         IN  SelectSeq(b, LAMBDA p : has(a, p))

\* for (let tags of markerTags) { ... .forEach(tagSet.add, tagSet) }
RECURSIVE tagSetOf(_, _)
tagSetOf(tagSet, markerTags) ==
    IF markerTags = <<>> THEN tagSet
    ELSE LET filtered == filteredOf(markerTags[1])
         IN  IF filtered = <<>> THEN tagSetOf(tagSet, Tail(markerTags))
             ELSE tagSetOf(addAll(tagSet, reduceIntersect(filtered)),
                           Tail(markerTags))

\* the documents of the call: markerFiles, the expansion of markerFolders,
\* the tag filter when the index of the companion plugin is there
filesOfCall(c) ==
    LET candidates == expandFolders(addAll(<<>>, c.markerFiles),
                                    c.markerFolders)
        tagSet == tagSetOf(<<>>, c.markerTags)
    IN  IF c.cache /\ Len(c.markerTags) > 0
        THEN IF candidates # <<>>
             THEN SelectSeq(candidates, LAMBDA p : has(tagSet, p))
             ELSE tagSet
        ELSE candidates


(***************************************************************************)
(* The part of getImmutableItems that reads the frontmatter of the         *)
(* documents.  A frontmatter is [location, mapmarkers, mapoverlay, tag]:   *)
(* JavaScript values, Undef for a field the frontmatter does not have;     *)
(* tag is the field named by the overlayTag argument.  mapmarker and       *)
(* mapzoom are not in the frontmatters of the model.                       *)
(***************************************************************************)
\* Number(s) of a text
numberOfText(t) ==
    IF t = <<>> THEN 0
    ELSE IF Len(t) = 1 THEN NumberOf(t[1])
    ELSE NaN

\* typeof lat === "number" ? lat : Number(lat?.split("%").shift()); a value
\* that has no split makes the try block throw and is rejected as NaN is
coordinateOf(v) ==
    IF v.kind = "num" THEN numberOfText(v.text)
    ELSE IF v.kind = "str" THEN numberOfText(split(v.text, <<"%">>)[1])
    ELSE NaN

\* v instanceof Array
IsArray(v) == v.kind = "arr"

\* the list of pairs of frontmatter.location
locationsOf(location) ==
    IF location.items # <<>> /\ ~IsArray(location.items[1])
    THEN <<location>> ELSE location.items

\* err || isNaN(lat) || isNaN(long)
BadPair(pair) ==
    \/ coordinateOf(IF Len(pair.items) >= 1 THEN pair.items[1] ELSE Undef) = NaN
    \/ coordinateOf(IF Len(pair.items) >= 2 THEN pair.items[2] ELSE Undef) = NaN

\* length.match(OVERLAY_TAG_REGEX) of a string: a distance and a unit
DistanceTexts == {<<"1", " ", "m">>, <<"2", " ", "k", "m">>}
matchesDistance(v) == v.text \in DistanceTexts

\* the k-th identifier getId() returns in a call; the random digits of a
\* call are named by its seed, and two draws never give the same digits
getId(seed, k) == seed * 10 + k

\* the marker tuples of frontmatter.location
locationMarkers(fm, doc, id) ==
    LET good == SelectSeq(locationsOf(fm.location), LAMBDA p : ~BadPair(p))
    IN  [i \in DOMAIN good |->
            [type |-> "default",
             lat |-> coordinateOf(good[i].items[1]),
             long |-> coordinateOf(good[i].items[2]),
             link |-> doc.linktext,
             layer |-> UndefinedStr,
             command |-> FALSE,
             id |-> id,
             desc |-> Null,
             minZoom |-> Undefined,
             maxZoom |-> Undefined]]

\* the marker tuples of frontmatter.mapmarkers: [type, location] entries
mapmarkersMarkers(fm, doc, id) ==
    [i \in DOMAIN fm.mapmarkers.items |->
        LET entry == fm.mapmarkers.items[i].items
        IN  [type |-> IF Falsy(entry[1]) THEN "default" ELSE entry[1].text[1],
             lat |-> numberOfText(entry[2].items[1].text),
             long |-> numberOfText(entry[2].items[2].text),
             link |-> doc.linktext,
             layer |-> UndefinedStr,
             command |-> FALSE,
             id |-> id,
             desc |-> Undefined,
             minZoom |-> Undefined,
             maxZoom |-> Undefined]]

\* frontmatter.mapoverlay[0] instanceof Array ? frontmatter.mapoverlay :
\* [frontmatter.mapoverlay]
overlayList(mapoverlay) ==
    IF mapoverlay.items # <<>> /\ IsArray(mapoverlay.items[1])
    THEN mapoverlay.items ELSE <<mapoverlay>>

\* the i-th element of a destructured array, def when it is undefined
ElementOr(v, i, def) ==
    IF i <= Len(v.items) /\ v.items[i].kind # "undefined" THEN v.items[i]
    ELSE def

\* the length of a mapoverlay tuple, "1 m" when it has none
lengthOf(tuple) == ElementOr(tuple, 3, Str(<<"1", " ", "m">>))

\* the overlay tuples of frontmatter.mapoverlay; a length that does not
\* match is skipped with a notice
overlayTuples(fm, doc, id, c) ==
    LET good == SelectSeq(overlayList(fm.mapoverlay),
                          LAMBDA t : matchesDistance(lengthOf(t)))
    IN  [i \in DOMAIN good |->
            [color |-> ElementOr(good[i], 1,
                                 IF c.overlayColor.kind
                                        \in {"undefined", "null"}
                                 THEN Str(<<"blue">>) ELSE c.overlayColor),
             loc |-> ElementOr(good[i], 2, Arr(<<Num(<<"0">>), Num(<<"0">>)>>)),
             length |-> lengthOf(good[i]),
             desc |-> <<doc.linktext, " overlay">>,
             id |-> id]]

\* the overlay tuple of the field named by overlayTag
tagOverlay(fm, doc, id, c) ==
    [color |-> c.overlayColor,
     loc |-> locationsOf(fm.location)[1],
     length |-> fm.tag,
     desc |-> <<doc.linktext, ": ", c.overlayTag>>,
     id |-> id]

\* does the body of the loop throw for this frontmatter: match is called on
\* a length, or on the overlayTag field, that is not a string
throwsIn(fm) ==
    \/ /\ fm.mapoverlay.kind # "undefined"
       /\ \E i \in DOMAIN overlayList(fm.mapoverlay) :
            lengthOf(overlayList(fm.mapoverlay)[i]).kind # "str"
    \/ fm.tag.kind \notin {"undefined", "str"}

\* is the frontmatter passed over: !frontmatter.location &&
\* !frontmatter.mapoverlay
PassedOver(fm) ==
    fm.location.kind = "undefined" /\ fm.mapoverlay.kind = "undefined"

\* the `continue` statements of the overlayTag branch, which leave the loop
\* body before watchers.set(file, idMap)
LeavesEarly(fm) ==
    /\ fm.tag.kind # "undefined"
    /\ ~matchesDistance(fm.tag) \/ fm.location.kind = "undefined"

\* what one document adds: its marker tuples, overlay tuples, idMap (none
\* when the loop body is left early), notices, and the identifiers drawn
fromDocument(fm, doc, c, seed, k) ==
    LET id == getId(seed, k + 1)
        hasMm == fm.mapmarkers.kind # "undefined"
        mmId == getId(seed, k + 2)
        hasLoc == fm.location.kind # "undefined"
        hasOv == fm.mapoverlay.kind # "undefined"
        hasTag == fm.tag.kind # "undefined"
        tagOk == hasTag /\ ~LeavesEarly(fm)
        badPairs == Len(locationsOf(fm.location))
                        - Len(locationMarkers(fm, doc, id))
        badLengths == Len(overlayList(fm.mapoverlay))
                        - Len(overlayTuples(fm, doc, id, c))
    IN  [markers |->
            (IF hasLoc THEN locationMarkers(fm, doc, id) ELSE <<>>)
            \o (IF hasMm THEN mapmarkersMarkers(fm, doc, mmId) ELSE <<>>),
         overlays |->
            (IF hasOv THEN overlayTuples(fm, doc, id, c) ELSE <<>>)
            \o (IF tagOk THEN <<tagOverlay(fm, doc, id, c)>> ELSE <<>>),
         idMap |->
            (IF hasLoc THEN <<[key |-> "marker", id |-> id]>> ELSE <<>>)
            \o (IF hasMm THEN <<[key |-> "mapmarkers", id |-> mmId]>> ELSE <<>>)
            \o (IF hasOv THEN <<[key |-> "overlay", id |-> id]>> ELSE <<>>)
            \o (IF tagOk THEN <<[key |-> "overlayTag", id |-> id]>> ELSE <<>>),
         set |-> ~LeavesEarly(fm),
         notices |->
            (IF hasLoc THEN badPairs ELSE 0)
            + (IF hasOv THEN badLengths ELSE 0)
            + (IF hasTag /\ ~matchesDistance(fm.tag) THEN 1 ELSE 0),
         drawn |-> IF hasMm THEN 2 ELSE 1]

\* watchers.set(file, idMap): a Map keeps one entry per key
setWatcher(watchers, file, idMap) ==
    IF \E i \in DOMAIN watchers : watchers[i].file = file
    THEN [i \in DOMAIN watchers |->
            IF watchers[i].file = file THEN [file |-> file, idMap |-> idMap]
            ELSE watchers[i]]
    ELSE Append(watchers, [file |-> file, idMap |-> idMap])

\* for (let path of files) { ... }: acc is [markers, overlays, watchers,
\* notices, drawn, threw]
RECURSIVE documentsLoop(_, _, _, _)
documentsLoop(acc, files, c, seed) ==
    IF files = <<>> \/ acc.threw THEN acc
    ELSE LET f == getFirstLinkpathDest(parseLink(files[1]))
             fm == c.frontmatter[f]
             d == fromDocument(fm, Vault[f], c, seed, acc.drawn)
         IN  IF f = 0 \/ PassedOver(c.frontmatter[f])
             THEN documentsLoop(acc, Tail(files), c, seed)
             ELSE IF throwsIn(fm) THEN [acc EXCEPT !.threw = TRUE]
             ELSE documentsLoop(
                    [markers |-> acc.markers \o d.markers,
                     overlays |-> acc.overlays \o d.overlays,
                     watchers |-> IF d.set
                                  THEN setWatcher(acc.watchers, f, d.idMap)
                                  ELSE acc.watchers,
                     notices |-> acc.notices + d.notices,
                     drawn |-> acc.drawn + d.drawn,
                     threw |-> FALSE],
                    Tail(files), c, seed)


\* the number of rows of a list that are skipped, each with its notice
RECURSIVE skippedRows(_)
skippedRows(rows) ==
    IF rows = <<>> THEN 0
    ELSE (IF Skipped(rows[1]) THEN 1 ELSE 0) + skippedRows(Tail(rows))

\* the whole call: the inline rows, then the documents.  c holds the
\* arguments and the vault state (the index of the companion plugin, the
\* frontmatter of the documents); seed names the random digits getId draws
\* in this call.  The result is [state, executor, markers, overlays,
\* watchers, notices, files].
resolveItems(c, seed) ==
    LET rows == getImmutableItems(c.markers, c.commandMarkers)
        files == filesOfCall(c)
        start == [markers |-> rows.markers, overlays |-> <<>>,
                  watchers |-> <<>>,
                  notices |-> skippedRows(c.markers)
                                + skippedRows(c.commandMarkers)
                                + (IF ~c.cache /\ Len(c.markerTags) > 0
                                   THEN 1 ELSE 0),
                  drawn |-> 0, threw |-> FALSE]
        end == documentsLoop(start, files, c, seed)
    IN  IF rows.executor = "threw" \/ end.threw
        THEN [state |-> "pending", executor |-> "threw", markers |-> <<>>,
              overlays |-> <<>>, watchers |-> <<>>, notices |-> 0,
              files |-> files]
        ELSE [state |-> "resolved", executor |-> "returned",
              markers |-> end.markers, overlays |-> end.overlays,
              watchers |-> end.watchers, notices |-> end.notices,
              files |-> files]


(***************************************************************************)
(* DocsSpec: getImmutableItems is called, and called again with the same   *)
(* arguments on the same vault.                                            *)
(*   call    = the arguments and the vault state of the calls              *)
(*   promise = the results of the calls made so far, in order              *)
(***************************************************************************)
\* the seeds of the random digits of a call
MaxSeed == 2
\* the calls made with the same arguments
MaxCalls == 2

GoodPair == Arr(<<Num(<<"1">>), Num(<<"2">>)>>)
BadPairValue == Arr(<<Str(<<"x">>), Num(<<"2">>)>>)
PercentPair == Arr(<<Str(<<"1", "%">>), Str(<<"2">>)>>)

Locations ==
    {Undef, GoodPair, BadPairValue, PercentPair,
     Arr(<<GoodPair, BadPairValue>>), Arr(<<BadPairValue, GoodPair>>)}

Mapmarkers == {Undef, Arr(<<Arr(<<Str(<<"pin">>), GoodPair>>)>>)}

GoodLength == Str(<<"2", " ", "k", "m">>)
BadLength == Str(<<"f", "a", "r">>)
OverlayOf(length) == Arr(<<Str(<<"red">>), GoodPair, length>>)

Mapoverlays ==
    {Undef, OverlayOf(GoodLength), OverlayOf(BadLength),
     OverlayOf(Num(<<"2">>)), Arr(<<Undef, GoodPair>>),
     Arr(<<OverlayOf(BadLength), OverlayOf(GoodLength)>>)}

TagFields == {Undef, GoodLength, BadLength, Num(<<"2">>)}

Frontmatters ==
    [location : Locations, mapmarkers : Mapmarkers,
     mapoverlay : Mapoverlays, tag : TagFields]

\* the frontmatter of the documents of the vault that do not vary
PlainFrontmatter ==
    [location |-> GoodPair, mapmarkers |-> Undef, mapoverlay |-> Undef,
     tag |-> Undef]

TagX == <<"#", "x">>
TagY == <<"#", "y">>

\* calls that vary the document set over the same frontmatter
FilterCalls ==
    [markers : {<<>>}, commandMarkers : {<<>>},
     markerFiles : {<<>>, <<"A.md">>, <<"[[A]]">>, <<"A.md", "F/B.md">>,
                    <<"F/C.md">>},
     markerFolders : {<<>>, <<"F">>},
     markerTags : {<<>>, << <<TagX>> >>, << <<TagX, TagY>> >>,
                   << <<TagX>>, <<TagY>> >>, << <<<<"x">>, <<>>>> >>},
     cache : BOOLEAN,
     overlayTag : {"reach"}, overlayColor : {Str(<<"blue">>)},
     frontmatter : {<<PlainFrontmatter, PlainFrontmatter, PlainFrontmatter>>}]

\* calls that vary the inline rows and the frontmatter of document A
DocumentCalls ==
    [markers : {<<>>, <<<<"pin", "1", "1", "[[A]]">>>>,
                <<<<"pin", "x", "1", "[[A]]">>>>},
     commandMarkers : {<<>>},
     markerFiles : {<<"A.md">>, <<"A.md", "F/B.md">>, <<"[[A]]", "A.md">>},
     markerFolders : {<<>>},
     markerTags : {<<>>},
     cache : {TRUE},
     overlayTag : {"reach"}, overlayColor : {Str(<<"blue">>)},
     frontmatter : {<<fm, PlainFrontmatter, PlainFrontmatter>> :
                        fm \in Frontmatters}]

DocsInit ==
    /\ call \in FilterCalls \cup DocumentCalls
    /\ promise = <<>>
    /\ block = "none"
    /\ params = <<>>
    /\ MarkerIdle
    /\ RtIdle
    /\ PluginIdle

\* getImmutableItems(...) is called
Resolve ==
    /\ promise = <<>>
    /\ \E seed \in 1..MaxSeed : promise' = <<resolveItems(call, seed)>>
    /\ UNCHANGED <<block, params, call>>

\* getImmutableItems(...) is called again, with the same arguments
ResolveAgain ==
    /\ promise # <<>>
    /\ Len(promise) < MaxCalls
    /\ \E seed \in 1..MaxSeed :
            promise' = Append(promise, resolveItems(call, seed))
    /\ UNCHANGED <<block, params, call>>

DocsNext ==
    (Resolve \/ ResolveAgain) /\ UNCHANGED <<markerVars, rtVars, pluginVars>>

DocsSpec == DocsInit /\ [][DocsNext]_vars


(***************************************************************************)
(* Claims about the Marker entity                                          *)
(***************************************************************************)

\* C5: for every zoom, every combination of bounds and both displayed
\* states, shouldShow(zoom) is true exactly when both bounds are null, or the
\* marker is not displayed and both bounds are set and minZoom <= zoom <=
\* maxZoom; shouldHide(zoom) is true exactly when the marker is displayed and
\* zoom is below a set minZoom or above a set maxZoom.
C5_TruthTable ==
    \A z \in Zooms :
        LET lo == marker.minZoom
            hi == marker.maxZoom
            bothNull == lo = Null /\ hi = Null
            bothSet == lo # Null /\ hi # Null
        IN  /\ shouldShow(marker, z) <=>
                (\/ bothNull
                 \/ (~marker.displayed /\ bothSet /\ lo <= z /\ z <= hi))
            /\ shouldHide(marker, z) <=>
                (/\ marker.displayed
                 /\ \/ (lo # Null /\ z < lo)
                    \/ (hi # Null /\ z > hi))

\* a hidden marker with both bounds set, at a zoom equal to its maxZoom
C5_Witness ==
    /\ ~marker.displayed
    /\ marker.minZoom # Null /\ marker.maxZoom # Null
    /\ marker.minZoom < marker.maxZoom
    /\ mapZoom = marker.maxZoom
    /\ lastOp = "zoom"

\* C6 as stated: show() on a hidden marker whose shouldShow holds adds the
\* proxy to the group of the marker's type and sets the state to shown; hide()
\* on a shown marker removes the proxy from that group and sets the state to
\* hidden; show() while shown and hide() while hidden change nothing.
C6_Original ==
    [][/\ (lastOp' = "show" /\ ~marker.displayed
           /\ shouldShow(marker, mapZoom))
          => (/\ marker'.displayed
              /\ marker'.inGroups = marker.inGroups \cup {marker.type})
       /\ (lastOp' = "hide" /\ marker.displayed)
          => (/\ ~marker'.displayed
              /\ marker'.inGroups = marker.inGroups \ {marker.type})
       /\ (lastOp' = "show" /\ marker.displayed) => marker' = marker
       /\ (lastOp' = "hide" /\ ~marker.displayed) => marker' = marker
      ]_vars

\* C6 amended: show() on a hidden marker whose shouldShow holds and whose
\* type has a display group (the marker's layer is built) adds the proxy to
\* that group and sets the state to shown; without a group show() changes
\* nothing; hide() on a shown marker removes the proxy from the group of its
\* type and sets the state to hidden; show() while shown and hide() while
\* hidden change nothing.
C6_Amended ==
    [][/\ (lastOp' = "show" /\ ~marker.displayed
           /\ shouldShow(marker, mapZoom) /\ mapLayer # "undefined")
          => (/\ marker'.displayed
              /\ marker'.inGroups = marker.inGroups \cup {marker.type})
       /\ (lastOp' = "show" /\ mapLayer = "undefined") => marker' = marker
       /\ (lastOp' = "hide" /\ marker.displayed)
          => (/\ ~marker'.displayed
              /\ marker'.inGroups = marker.inGroups \ {marker.type})
       /\ (lastOp' = "show" /\ marker.displayed) => marker' = marker
       /\ (lastOp' = "hide" /\ ~marker.displayed) => marker' = marker
      ]_vars

\* hide() has just hidden a shown marker with both bounds set, which only
\* show() inside the bounds can have shown
C6_Witness ==
    /\ lastOp = "hide"
    /\ wasDisplayed /\ ~marker.displayed
    /\ marker.inGroups = {}
    /\ marker.minZoom # Null /\ marker.maxZoom # Null

OneBound(m) == (m.minZoom = Null) # (m.maxZoom = Null)

\* C7: a marker with exactly one of minZoom/maxZoom set, once hidden, is not
\* shown by any step that leaves its bounds as they are; a shown marker with
\* one bound set, at a zoom outside that bound, satisfies shouldHide and
\* hide() hides it.
C7_OneBoundNeverShownAgain ==
    [][/\ (/\ OneBound(marker) /\ ~marker.displayed
           /\ marker'.minZoom = marker.minZoom
           /\ marker'.maxZoom = marker.maxZoom)
          => ~marker'.displayed
       /\ (/\ OneBound(marker) /\ marker.displayed
           /\ \/ (marker.minZoom # Null /\ mapZoom < marker.minZoom)
              \/ (marker.maxZoom # Null /\ mapZoom > marker.maxZoom))
          => (/\ shouldHide(marker, mapZoom)
              /\ lastOp' = "hide" => ~marker'.displayed)
      ]_vars

\* a shown marker with maxZoom alone set has just been hidden by hide() at a
\* zoom above maxZoom
C7_Witness ==
    /\ OneBound(marker)
    /\ lastOp = "hide"
    /\ wasDisplayed /\ ~marker.displayed
    /\ marker.maxZoom # Null /\ mapZoom > marker.maxZoom

\* C8: the proxy is in at most one type-indexed display group, and whenever
\* the marker is shown that group is the group of its current type.
C8_OneGroupOfCurrentType ==
    /\ Cardinality(marker.inGroups) <= 1
    /\ marker.displayed => marker.inGroups = {marker.type}

\* C9: assigning command never changes link, and the target strategy is the
\* one the assigned value selects (so any sequence of assignments leaves link
\* as it was and the strategy that of the last value).
C9_CommandKeepsLink ==
    [][lastOp' = "command"
       => (/\ link(marker') = link(marker)
           /\ marker'.target.kind =
                 IF marker'.command THEN "Command" ELSE "Link")
      ]_vars

\* command was just assigned true on a marker with a non-empty link
C9_Witness ==
    /\ lastOp = "command"
    /\ marker.command
    /\ marker.target = Command("Note")

\* C10: the record of the second toProperties() equals the first, field by
\* field.
C10_RoundTrip == rtStage = "done" => saved2 = saved1

\* every field of the two records but loc agrees
C10_AllButLoc ==
    rtStage = "done" =>
        \A f \in (DOMAIN saved1) \ {"loc"} : saved2[f] = saved1[f]


(***************************************************************************)
(* Claims about the plugin shell                                           *)
(***************************************************************************)
\* the registered views other than v that show the map id of v
SameIdViews(v) ==
    {h \in Handles \ {v} : Registered(h) /\ mapId[h] = mapId[v]}

\* the marker of this id among ms
MarkerOf(ms, id) == ms[FindMarker(ms, id)]

\* every other registered view of the map id of v went through Mut, every
\* other view kept its markers
Replayed(v, Mut(_, _)) ==
    \A h \in Handles \ {v} :
        IF h \in SameIdViews(v)
        THEN Mut(markersOf[h], markersOf'[h])
        ELSE markersOf'[h] = markersOf[h]

\* ms2 is ms with the marker of this id, if any, at position p
Moved(ms, ms2, id, p) ==
    /\ Len(ms2) = Len(ms)
    /\ \A i \in DOMAIN ms :
          IF i = FindMarker(ms, id)
          THEN ms2[i] = [ms[i] EXCEPT !.loc = p, !.latlng = p]
          ELSE ms2[i] = ms[i]

\* ms2 is ms with the marker of this id, if any, of this type
Retyped(ms, ms2, id, type) ==
    /\ Len(ms2) = Len(ms)
    /\ \A i \in DOMAIN ms :
          IF i = FindMarker(ms, id)
          THEN ms2[i] = [ms[i] EXCEPT !.type = type]
          ELSE ms2[i] = ms[i]

\* ms2 is ms without the markers of this id
Without(ms, ms2, id) ==
    /\ \A i \in DOMAIN ms2 : ms2[i].id # id
    /\ ms2 = SelectSeq(ms, LAMBDA m : m \in Range(ms2))
    /\ \A i \in DOMAIN ms : ms[i].id # id => ms[i] \in Range(ms2)

\* what a step of each kind does to map.markers of every view; the first
\* conjuncts of an antecedent are implied by its action
C1_Step ==
    \A v \in Handles :
        /\ \A loc \in Positions, type \in Types :
              (nextId' # nextId /\ CreateMarker(v, loc, type)) =>
                  LET m == [id |-> nextId, loc |-> loc, latlng |-> loc,
                            type |-> type]
                  IN  /\ Replayed(v, LAMBDA ms, ms2 : ms2 = Append(ms, m))
                      /\ markersOf'[v] = Append(markersOf[v], m)
        /\ \A id \in MarkerIds, latlng \in Positions :
              (dragging' = <<v, id>> /\ Drag(v, id, latlng)) =>
                  /\ Replayed(v, LAMBDA ms, ms2 : Moved(ms, ms2, id, latlng))
                  /\ markersOf'[v] =
                        [markersOf[v] EXCEPT
                            ![FindMarker(markersOf[v], id)].latlng = latlng]
        /\ \A k \in DOMAIN pending :
              (pending[k].src = v /\ pending' # pending
                  /\ DataUpdatedResume(k)) =>
                  LET id == pending[k].id
                      latlng ==
                          IF HasMarker(markersOf[v], id)
                          THEN MarkerOf(markersOf[v], id).latlng
                          ELSE pending[k].latlng
                  IN  /\ Replayed(v,
                            LAMBDA ms, ms2 : Moved(ms, ms2, id, latlng))
                      /\ markersOf'[v] = markersOf[v]
        /\ \A id \in MarkerIds, type \in Types :
              (nextId' = nextId /\ dragging = <<>> /\ dragging' = <<>>
                  /\ EditMarker(v, id, type)) =>
                  /\ Replayed(v, LAMBDA ms, ms2 : Retyped(ms, ms2, id, type))
                  /\ Retyped(markersOf[v], markersOf'[v], id, type)
        /\ \A id \in MarkerIds :
              (data' = data /\ dragging = <<>> /\ dragging' = <<>>
                  /\ DeleteMarker(v, id)) =>
                  /\ Replayed(v, LAMBDA ms, ms2 : Without(ms, ms2, id))
                  /\ Without(markersOf[v], markersOf'[v], id)

\* C1: when view v of map id X raises marker-added, marker-dragging,
\* marker-data-updated, marker-updated or marker-deleted, every other
\* registered view of map id X gets the marker added, the marker of that id
\* moved (dragging, data-updated), retyped or removed, and the handler changes
\* nothing in v itself, in a view of another map id or in a view that is no
\* longer registered.
C1_RelayToSameIdViews == [][C1_Step]_vars

\* a drag in v is under way: another view of the same map id has followed it
\* and a view of another map id has not
C1_Witness ==
    \E v \in Handles, id \in MarkerIds :
        /\ dragging = <<v, id>>
        /\ MarkerOf(markersOf[v], id).latlng # MarkerOf(markersOf[v], id).loc
        /\ \E w \in SameIdViews(v) :
              /\ HasMarker(markersOf[w], id)
              /\ MarkerOf(markersOf[w], id).loc =
                    MarkerOf(markersOf[v], id).latlng
        /\ \E u \in Handles :
              Registered(u) /\ mapId[u] # mapId[v] /\ markersOf[u] = <<>>

\* no handler is pending and no drag is under way
Quiescent == pending = <<>> /\ dragging = <<>>

MarkerIdsOf(ms) == {ms[i].id : i \in DOMAIN ms}

\* C2: once no drag is under way and every marker-data-updated handler has
\* finished, any two registered views of one map id hold the same set of
\* marker ids and every marker id has the same position in both.
C2_EventualConsistency ==
    Quiescent =>
        \A v \in Handles : \A w \in SameIdViews(v) :
            Registered(v) =>
                /\ MarkerIdsOf(markersOf[v]) = MarkerIdsOf(markersOf[w])
                /\ \A id \in MarkerIdsOf(markersOf[v]) :
                      MarkerOf(markersOf[v], id).loc =
                          MarkerOf(markersOf[w], id).loc

\* the persisted marker (no marker was placed since the load) was dragged
\* away from its persisted position, the drag has ended, its handler has
\* finished and two views of the map id show it
C2_Witness ==
    /\ Quiescent
    /\ nextId = LegacyMarker.id + 1
    /\ \E v \in Handles : \E w \in SameIdViews(v) :
          /\ Registered(v)
          /\ HasMarker(markersOf[v], LegacyMarker.id)
          /\ HasMarker(markersOf[w], LegacyMarker.id)
          /\ MarkerOf(markersOf[v], LegacyMarker.id).loc # LegacyMarker.loc
          /\ MarkerOf(markersOf[w], LegacyMarker.id).loc # LegacyMarker.loc

\* C3: after every completed saveSettings the persisted store holds no map
\* record whose marker list and overlay list are both empty, whatever the
\* record's age, id and files.
C3_NoEmptyRecord ==
    \A i \in DOMAIN data :
        Len(data[i].markers) > 0 \/ data[i].overlays > 0

\* the last save was given an empty record of a map with files, and after a
\* tick an empty record of an open map
C3_Witness ==
    /\ lastSave.at > Week
    /\ \E i \in DOMAIN lastSave.pushed :
          LET r == lastSave.pushed[i]
          IN  /\ Len(r.markers) = 0 /\ r.overlays = 0
              /\ Len(r.files) > 0
              /\ r.lastAccessed = lastSave.at
              /\ \E v \in Handles : Registered(v) /\ mapId[v] = r.id

\* C4: of the records a save holds when it prunes, one with a non-empty
\* marker list and no associated file is removed if its lastAccessed is more
\* than 604,800,000 ms before the time of the save and kept if its
\* lastAccessed is within 604,800,000 ms (inclusive) of it.
C4_PrunedByAge ==
    \A i \in DOMAIN lastSave.pushed :
        LET r == lastSave.pushed[i]
        IN  (Len(r.markers) > 0 /\ Len(r.files) = 0 /\ r.lastAccessed # Null)
            => IF lastSave.at - r.lastAccessed > Week
               THEN r \notin Range(data)
               ELSE r \in Range(data)


\* C11: after any sequence of assignments to link, mutable, type and icon,
\* the link, mutable and type data attributes of the proxy's current icon are
\* the string forms of the entity's link, mutable and type.
C11_IconDataInSync ==
    /\ marker.icon.link = StrOf(link(marker))
    /\ marker.icon.mutable = BoolStr(marker.mutable)
    /\ marker.icon.type = StrOf(marker.type)

\* C27: for every marker state and every zoom, shouldShow(zoom) and
\* shouldHide(zoom) are never both true, so the show-else-hide decision
\* after an edit or a zoom change does not depend on the order of the tests.
C27_ShowAndHideExclude ==
    \A zoom \in Zooms : ~(shouldShow(marker, zoom) /\ shouldHide(marker, zoom))

\* a shown marker with both bounds is out of its range after a zoom change:
\* shouldHide holds and shouldShow does not
C27_Witness ==
    /\ lastOp = "zoom"
    /\ marker.displayed
    /\ marker.minZoom # Null /\ marker.maxZoom # Null
    /\ shouldHide(marker, mapZoom)
    /\ ~shouldShow(marker, mapZoom)


(***************************************************************************)
(* Claims about the code-block parser                                      *)
(***************************************************************************)
\* C12: getParamsFromSource is total: for every input string (text the
\* structured parser rejects, text that parses to a non-mapping value, link
\* tokens containing quote or backslash characters) it returns a parameter
\* object and never raises to the caller.
C12_NeverRaises == params # <<>> => ~params[1].threw

\* the lines of the block that start with `key:`, in source order, and the
\* text after the colon of such a line
KeyLines(key) ==
    SelectSeq(block.lines,
              LAMBDA l : Len(l) >= 2 /\ l[1] = key /\ l[2] = ":")
ValueOfLine(l) == trim(Slice(l, 3, Len(l)))
ValuesOf(key) ==
    [i \in DOMAIN KeyLines(key) |-> Str(ValueOfLine(KeyLines(key)[i]))]

\* C13: for every block text with two or more top-level image: lines, the
\* layers sequence returned by getParamsFromSource equals the values of
\* those lines in source order, and image equals the first of them.
C13_ImageLines ==
    (params # <<>> /\ ~params[1].threw /\ Len(KeyLines("image")) >= 2)
        => /\ params[1].layers = Arr(ValuesOf("image"))
           /\ params[1].image = ValuesOf("image")[1]

\* C14: for every block text, the parameters returned by getParamsFromSource
\* have a layers sequence with at least one element and image equal to
\* layers[0]; when no image is given, layers is the one-element sequence
\* holding the default layer name.
C14_AtLeastOneLayer ==
    (params # <<>> /\ ~params[1].threw)
        => /\ params[1].layers.kind = "arr"
           /\ Len(params[1].layers.items) >= 1
           /\ params[1].image = params[1].layers.items[1]
           /\ KeyLines("image") = <<>> => params[1].layers = Arr(<<Real>>)

\* the strings of a value: the texts of its strings, of the items of its
\* arrays, of the keys and values of its objects
RECURSIVE TextsOf(_)
TextsOf(v) ==
    IF v.kind = "str" THEN {v.text}
    ELSE IF v.kind = "arr"
    THEN UNION {TextsOf(v.items[i]) : i \in DOMAIN v.items}
    ELSE IF v.kind = "obj"
    THEN UNION {{v.items[i].key} \cup TextsOf(v.items[i].val) :
                    i \in DOMAIN v.items}
    ELSE {}

\* the strings of the result of getParamsFromSource
ResultTexts(r) ==
    TextsOf(r.base) \cup TextsOf(r.layers)
        \cup UNION {TextsOf(r.obj[k]) : k \in MarkerKeys}

\* C15: every double-bracket link token of the raw block text appears
\* character for character in the parsed parameter values, and no positional
\* placeholder (LEAFLET_INTERNAL_LINK_n) remains in the result, whether
\* structured parsing succeeded or the fallback parser ran.
C15_LinksPreserved ==
    (params # <<>> /\ ~params[1].threw)
        => /\ \A i \in DOMAIN Source : Source[i] \in LinkTokens
                => \E t \in ResultTexts(params[1]) :
                        \E j \in DOMAIN t : t[j] = Source[i]
           /\ \A t \in ResultTexts(params[1]) :
                \A j \in DOMAIN t : t[j] # "LEAFLET_INTERNAL_LINK_"

\* the value the lines of a marker key stand for: the text after the colon,
\* for markerTag the list of its comma-separated tags
LineValues(key) ==
    [i \in DOMAIN KeyLines(key) |->
        LET tags == splitOptWs(ValueOfLine(KeyLines(key)[i]), <<",">>)
        IN  IF key = "markerTag"
            THEN Arr([j \in DOMAIN tags |-> Str(tags[j])])
            ELSE Str(ValueOfLine(KeyLines(key)[i]))]

\* C16: for each of the keys marker, markerFile, markerFolder, markerTag,
\* commandMarker, geojson, linksTo, linksFrom: if the key occurs as a
\* standalone line more than once in the raw text, the returned sequence for
\* that key holds the value of every such line in source order; if the key
\* is absent the returned value is the empty sequence.
C16_EveryLineOfAKey ==
    (params # <<>> /\ ~params[1].threw)
        => \A k \in MarkerKeys :
            /\ Len(KeyLines(k)) > 1 => params[1].obj[k] = Arr(LineValues(k))
            /\ KeyLines(k) = <<>> => params[1].obj[k] = Arr(<<>>)

(***************************************************************************)
(* Claims about the inline marker rows                                     *)
(***************************************************************************)
\* the rows of the call that are accepted, in the order of their tuples,
\* when the call resolves
Accepted(rows) == SelectSeq(rows, LAMBDA r : ~Skipped(r))
AcceptedRows == Accepted(call.markers) \o Accepted(call.commandMarkers)

\* C17 as stated: for every accepted inline CSV marker row, the type of the
\* produced tuple is "default" if and only if the row's type field is empty
\* or the literal string "undefined"; otherwise it is the row's type field
\* unchanged.
C17_Original ==
    promise.state = "resolved"
        => \A i \in DOMAIN Accepted(call.markers) :
            LET field == Accepted(call.markers)[i][1]
                type == promise.markers[i].type
            IN  /\ type = "default" <=> field \in {"", "undefined"}
                /\ field \notin {"", "undefined"} => type = field

\* C17 amended: the type of the produced tuple is "default" if and only if
\* the row's type field is empty, is the literal string "undefined" or is
\* itself "default"; otherwise it is the row's type field unchanged.
C17_Amended ==
    promise.state = "resolved"
        => \A i \in DOMAIN Accepted(call.markers) :
            LET field == Accepted(call.markers)[i][1]
                type == promise.markers[i].type
            IN  /\ type = "default" <=> field \in {"", "undefined", "default"}
                /\ field \notin {"", "undefined", "default"} => type = field

C17_Witness ==
    /\ promise.state = "resolved"
    /\ \E i \in DOMAIN Accepted(call.markers) :
          /\ Accepted(call.markers)[i][1] = "undefined"
          /\ promise.markers[i].type = "default"

\* the number a zoom field stands for; absent (Undefined) when the field is
\* missing, empty or not the text of a number
ZoomValue(s) ==
    IF \E n \in 0..9 : Digit[n + 1] = s
    THEN CHOOSE n \in 0..9 : Digit[n + 1] = s
    ELSE Undefined

\* C18: for every accepted inline marker or command-marker row, the minZoom
\* (resp. maxZoom) of the produced tuple is absent whenever the row's minZoom
\* (resp. maxZoom) field is not a number, including when the field is
\* missing or is the empty string, and equals the numeric value otherwise.
C18_ZoomAbsentUnlessNumeric ==
    promise.state = "resolved"
        => \A i \in DOMAIN AcceptedRows :
            /\ promise.markers[i].minZoom = ZoomValue(Field(AcceptedRows[i], 6))
            /\ promise.markers[i].maxZoom = ZoomValue(Field(AcceptedRows[i], 7))

\* the text in lower case, for the texts of the model
Lower(s) ==
    IF s = "Save" THEN "save" ELSE IF s = "Open" THEN "open" ELSE s

\* the commands whose name or id equals the text ignoring letter case
Named(s) ==
    {i \in DOMAIN Commands :
        Lower(Commands[i].name) = Lower(s) \/ Lower(Commands[i].id) = Lower(s)}

\* C19: for every command-marker row, the link field is resolved to the
\* identifier of a registered command whose display name or identifier
\* equals the link ignoring letter case; a link that differs from a
\* command's name or id only in case resolves to that command.
C19_CaseInsensitiveCommand ==
    (/\ promise.state # "none"
     /\ \A i \in DOMAIN Accepted(call.commandMarkers) :
            Named(Accepted(call.commandMarkers)[i][4]) # {})
        => /\ promise.state = "resolved"
           /\ \A i \in DOMAIN Accepted(call.commandMarkers) :
                \E c \in Named(Accepted(call.commandMarkers)[i][4]) :
                    promise.markers[Len(Accepted(call.markers)) + i].link
                        = Commands[c].id

\* C20: when a command-marker row's link matches no registered command, the
\* getImmutableItems call ends with a failure delivered to its caller: the
\* returned promise is rejected; it neither resolves with a result nor
\* stays pending.
C20_UnresolvableRejects ==
    (/\ promise.state # "none"
     /\ \E i \in DOMAIN Accepted(call.commandMarkers) :
            Named(parseLink(Accepted(call.commandMarkers)[i][4])) = {})
        => promise.state = "rejected"

(***************************************************************************)
(* Claims about the documents getImmutableItems resolves (DocsSpec)        *)
(***************************************************************************)
\* the malformed entries of a frontmatter: its location pairs that do not
\* give two numbers, its mapoverlay tuples whose length is not a distance
\* and a unit
MalformedIn(fm) ==
    (IF fm.location.kind = "undefined" THEN 0
     ELSE Len(SelectSeq(locationsOf(fm.location), BadPair)))
    + (IF fm.mapoverlay.kind = "undefined" THEN 0
       ELSE Len(SelectSeq(overlayList(fm.mapoverlay),
                          LAMBDA t : lengthOf(t) \notin
                                        {Str(d) : d \in DistanceTexts})))

\* the malformed entries of the documents of a list of paths
RECURSIVE MalformedOf(_)
MalformedOf(files) ==
    IF files = <<>> THEN 0
    ELSE LET f == getFirstLinkpathDest(parseLink(files[1]))
         IN  (IF f = 0 THEN 0 ELSE MalformedIn(call.frontmatter[f]))
                + MalformedOf(Tail(files))

\* C21: entry-scoped failures never abort the batch: whatever rows, location
\* pairs and mapoverlay tuples of a call are malformed, the call completes,
\* with a warning for each of them.
C21_FailuresNeverAbort ==
    \A i \in DOMAIN promise :
        /\ promise[i].state = "resolved"
        /\ promise[i].notices >=
                skippedRows(call.markers) + MalformedOf(promise[i].files)

\* the documents the strings of a list name
DocumentsOf(paths) ==
    {getFirstLinkpathDest(parseLink(paths[i])) : i \in DOMAIN paths} \ {0}

\* the candidate set of the call: the explicit files and the documents
\* under the folders
Candidates ==
    DocumentsOf(call.markerFiles)
        \cup {d \in DOMAIN Vault : \E i \in DOMAIN call.markerFolders :
                Vault[d].folder = call.markerFolders[i]}

\* the name of a tag, without its #
TagName(tag) == IF tag # <<>> /\ tag[1] = "#" THEN tag[2] ELSE tag[1]

\* the documents that carry all the tags of at least one filter group
Tagged ==
    {d \in DOMAIN Vault : \E g \in DOMAIN call.markerTags :
        \A i \in DOMAIN call.markerTags[g] :
            call.markerTags[g][i] # <<>>
                => TagName(call.markerTags[g][i]) \in Vault[d].tags}

\* C22: with a tag filter and the external index, the document set after
\* the tag filter is exactly the intersection of the candidate set with the
\* documents that carry all the tags of at least one filter group.
C22_TagFilterIntersects ==
    \A i \in DOMAIN promise :
        call.cache /\ call.markerTags # <<>>
            => DocumentsOf(promise[i].files) = Candidates \cap Tagged

\* C23: for every resolved document, the group identifiers recorded in the
\* source index under its categories (marker, mapmarkers, overlay,
\* overlayTag) are pairwise distinct.
C23_DistinctGroupIds ==
    \A i \in DOMAIN promise :
        \A w \in DOMAIN promise[i].watchers :
            LET idMap == promise[i].watchers[w].idMap
            IN  \A a, b \in DOMAIN idMap :
                    a # b => idMap[a].id # idMap[b].id

\* the group identifiers recorded in the source index of a result
RecordedIds(result) ==
    UNION {{result.watchers[w].idMap[k].id :
                k \in DOMAIN result.watchers[w].idMap} :
            w \in DOMAIN result.watchers}

\* C24: in every result of getImmutableItems, every marker tuple and every
\* overlay tuple with a non-null group id has that id recorded in the source
\* index, also when a later field of the same document is malformed.
C24_TuplesAreIndexed ==
    \A i \in DOMAIN promise :
        /\ \A m \in DOMAIN promise[i].markers :
                promise[i].markers[m].id # Null
                    => promise[i].markers[m].id \in RecordedIds(promise[i])
        /\ \A o \in DOMAIN promise[i].overlays :
                promise[i].overlays[o].id \in RecordedIds(promise[i])

\* C26: re-running is deterministic: resolving twice with identical
\* arguments and an identical vault state yields equal marker tuples,
\* overlay tuples and source index, group identifiers included.
C26_ResolvingIsDeterministic ==
    \A i, j \in DOMAIN promise :
        /\ promise[i].markers = promise[j].markers
        /\ promise[i].overlays = promise[j].overlays
        /\ promise[i].watchers = promise[j].watchers

(***************************************************************************)
(* Claims about the handlers of the documents (RenderSpec)                 *)
(***************************************************************************)
\* C25: when the parsed block has no id, the postprocessor surfaces one
\* notice and aborts: its promise is rejected, no renderer is created, and
\* maps and mapFiles are left as they were.
C25_NoIdAbortsRendering ==
    [][call'.op = "postprocessor" /\ call'.id = ""
        => /\ promise' = [state |-> "rejected", notices |-> 1]
           /\ created' = created
           /\ maps' = maps
           /\ mapFiles' = mapFiles]_vars

\* a block without an id was passed to the postprocessor while maps of
\* other blocks were registered
C25_Witness ==
    /\ call.op = "postprocessor" /\ call.id = ""
    /\ promise.notices = 1
    /\ maps # <<>> /\ mapFiles # <<>>

\* C28: after any sequence of block renders, document renames and document
\* deletions, mapFiles holds at most one entry per document path, each
\* entry's list of map ids holds no id more than once, and maps holds at
\* most one entry per container element.
C28_RegistriesHoldNoDuplicates ==
    /\ \A i, j \in DOMAIN mapFiles :
            mapFiles[i].file = mapFiles[j].file => i = j
    /\ \A i \in DOMAIN mapFiles :
            \A a, b \in DOMAIN mapFiles[i].maps :
                mapFiles[i].maps[a] = mapFiles[i].maps[b] => a = b
    /\ \A i, j \in DOMAIN maps : maps[i].el = maps[j].el => i = j

(***************************************************************************)
(* Claims about the persisted records after a handler (Spec, RenderSpec)   *)
(***************************************************************************)
\* C29: after a committed marker mutation in a view, once the handlers it
\* triggers have finished, the settings have been saved and the persisted
\* record of the map id reflects the mutation: a marker deleted through the
\* context menu is no longer in the persisted marker list.
C29_MutationIsSaved ==
    [][\A v \in Handles, id \in MarkerIds :
          /\ Registered(v)
          /\ HasMarker(markersOf[v], id)
          /\ ~HasMarker(markersOf'[v], id)
          => \A i \in DOMAIN data' :
                data'[i].id = mapId[v] => ~HasMarker(data'[i].markers, id)]_vars

\* C30: after the handler of a document deletion has finished, including its
\* save, mapFiles has no entry for the deleted path and no persisted map
\* record, whether or not its map is open, lists the deleted path among its
\* files.
C30_DeletedPathIsForgotten ==
    call.op = "delete"
        => /\ \A i \in DOMAIN mapFiles : mapFiles[i].file # call.path
           /\ \A i \in DOMAIN data :
                \A k \in DOMAIN data[i].files : data[i].files[k] # call.path

====
